---------------------------- MODULE Spec2Model ----------------------------
(***************************************************************************)
(* A model of the infinite-zoom engine: the QuadTree spatial index, the    *)
(* MultiLevelQuadTree manager that moves objects between zoom levels, and  *)
(* the zoom-state part of InfiniteZoomEngine.                              *)
(*                                                                         *)
(* Numbers.  The program computes with JavaScript doubles.  The model      *)
(* computes with exact rationals, a pair <<n, d>> in lowest terms with     *)
(* d > 0, so that halving a boundary, the 10% padding, 0.6 * fontSize and  *)
(* the scale factor 1/250000 are all exact.                                *)
(***************************************************************************)
EXTENDS Integers, Sequences, FiniteSets, TLC

VARIABLES
    objs,            \* the vector objects created so far: id -> geometry record
    levelQuadTrees,  \* MultiLevelQuadTree.levelQuadTrees: level -> QuadTree
    currentLevel,    \* MultiLevelQuadTree.currentLevel
    viewportX,       \* InfiniteZoomEngine.viewportX
    viewportY,       \* InfiniteZoomEngine.viewportY
    zoomLevel,       \* InfiniteZoomEngine.zoomLevel
    zoomLevelCount,  \* InfiniteZoomEngine.zoomLevelCount (the epoch)
    lastResetTime,   \* InfiniteZoomEngine.lastResetTime
    targetZoom,      \* InfiniteZoomEngine.targetZoom
    targetX,         \* InfiniteZoomEngine.targetX
    targetY,         \* InfiniteZoomEngine.targetY
    isAnimating,     \* InfiniteZoomEngine.isAnimating
    now,             \* the clock read by performance.now(), in ms
    transfers,       \* how many times transferObjectsToLevel has run
    live,            \* ids whose insert returned true and that were not cleared
    last,            \* record of the operation that produced this state
    before           \* record of the operation before that one

vars == <<objs, levelQuadTrees, currentLevel, viewportX, viewportY, zoomLevel,
          zoomLevelCount, lastResetTime, targetZoom, targetX, targetY,
          isAnimating, now, transfers, live, last, before>>

engineVars == <<viewportX, viewportY, zoomLevel, zoomLevelCount, lastResetTime,
                targetZoom, targetX, targetY, isAnimating>>

-----------------------------------------------------------------------------
(* Bounds of the model *)

\* capacity of a node before it subdivides (constructor argument of QuadTree)
maxObjects == 2

\* depth cap of a tree (constructor argument of QuadTree)
maxLevels == 2

\* how many objects the caller creates at most
MaxObjs == 4

\* how many transfers between levels are followed
MaxTransfers == 2

\* how many objects the manager is handed at most when it is driven directly
MaxMLObjs == 2

-----------------------------------------------------------------------------
(* Exact rational arithmetic *)

Abs(i) == IF i < 0 THEN -i ELSE i

RECURSIVE GCD(_, _)
GCD(a, b) ==
    IF b = 0 THEN a ELSE CHOOSE g \in { GCD(b, r) : r \in { a % b } } : TRUE

Norm(n, d) ==
    LET g == GCD(Abs(n), Abs(d))
        s == IF d < 0 THEN -1 ELSE 1
    IN  <<s * (n \div g), s * (d \div g)>>

Num(i) == <<i, 1>>

Frac(n, d) == Norm(n, d)

Add(a, b) ==
    LET g == GCD(a[2], b[2])
    IN  Norm(a[1] * (b[2] \div g) + b[1] * (a[2] \div g), (a[2] \div g) * b[2])

Neg(a) == <<-a[1], a[2]>>

Sub(a, b) == Add(a, Neg(b))

Mul(a, b) ==
    LET g1 == GCD(Abs(a[1]), b[2])
        g2 == GCD(Abs(b[1]), a[2])
    IN  Norm((a[1] \div g1) * (b[1] \div g2), (a[2] \div g2) * (b[2] \div g1))

Div(a, b) == Mul(a, IF b[1] < 0 THEN <<-b[2], -b[1]>> ELSE <<b[2], b[1]>>)

Lt(a, b) ==
    LET g == GCD(a[2], b[2])
    IN  IF a[1] \div a[2] # b[1] \div b[2] THEN a[1] \div a[2] < b[1] \div b[2]
        ELSE (a[1] % a[2]) * (b[2] \div g) < (b[1] % b[2]) * (a[2] \div g)

Le(a, b) ==
    LET g == GCD(a[2], b[2])
    IN  IF a[1] \div a[2] # b[1] \div b[2] THEN a[1] \div a[2] < b[1] \div b[2]
        ELSE (a[1] % a[2]) * (b[2] \div g) <= (b[1] % b[2]) * (a[2] \div g)

Gt(a, b) == Lt(b, a)

Ge(a, b) == Le(b, a)

Min2(a, b) == IF Lt(b, a) THEN b ELSE a

Max2(a, b) == IF Lt(a, b) THEN b ELSE a

Min4(a, b, c, d) == Min2(Min2(a, b), Min2(c, d))

Max4(a, b, c, d) == Max2(Max2(a, b), Max2(c, d))

AbsR(a) == <<Abs(a[1]), a[2]>>

Two == Num(2)

\* the element of a set of one element: Only({e(v) : v \in {d}}) is e with
\* v standing for the value of d
Only(S) == CHOOSE x \in S : TRUE

-----------------------------------------------------------------------------
(* Rectangle *)

Rectangle(x, y, width, height) ==
    [x |-> x, y |-> y, width |-> width, height |-> height]

\* Rectangle.intersects: this = r, the argument = other
intersects(r, other) ==
    ~ (\/ Ge(other.x, Add(r.x, r.width))
       \/ Le(Add(other.x, other.width), r.x)
       \/ Ge(other.y, Add(r.y, r.height))
       \/ Le(Add(other.y, other.height), r.y))

-----------------------------------------------------------------------------
(* Vector objects: VectorCircle, VectorRectangle, VectorLine, VectorBezier, *)
(* VectorText and VectorSVG.  An object is a record of its kind and its     *)
(* numeric fields; the tree holds the object's id, its index in objs.       *)

\* VectorObject.strokeWidth, the same for every object
strokeWidth == 2

halfStroke == Frac(strokeWidth, 2)

VectorCircle(x, y, radius) ==
    [kind |-> "VectorCircle", x |-> x, y |-> y, radius |-> radius]

VectorRectangle(x, y, width, height) ==
    [kind |-> "VectorRectangle", x |-> x, y |-> y, width |-> width, height |-> height]

VectorLine(x1, y1, x2, y2) ==
    [kind |-> "VectorLine", x1 |-> x1, y1 |-> y1, x2 |-> x2, y2 |-> y2]

VectorBezier(x1, y1, cp1x, cp1y, cp2x, cp2y, x2, y2) ==
    [kind |-> "VectorBezier", x1 |-> x1, y1 |-> y1, cp1x |-> cp1x, cp1y |-> cp1y,
     cp2x |-> cp2x, cp2y |-> cp2y, x2 |-> x2, y2 |-> y2]

VectorText(x, y, text, fontSize) ==
    [kind |-> "VectorText", x |-> x, y |-> y, text |-> text, fontSize |-> fontSize]

VectorSVG(x, y, width, height) ==
    [kind |-> "VectorSVG", x |-> x, y |-> y, width |-> width, height |-> height]

\* new VectorGroup() with its objects added by addObject
VectorGroup(objects) == [kind |-> "VectorGroup", objects |-> objects]

\* an object that is no VectorObject: it has getBounds(), which is all that
\* QuadTree.insert asks of an object, and no shouldRenderAtZoom
BoundsOnlyObject(x, y, width, height) ==
    [kind |-> "Object", x |-> x, y |-> y, width |-> width, height |-> height]

\* the corners of a bounding box, grown by half the stroke on every side
StrokedBox(minX, minY, maxX, maxY) ==
    LET x0 == Sub(minX, halfStroke)
        y0 == Sub(minY, halfStroke)
        x1 == Add(maxX, halfStroke)
        y1 == Add(maxY, halfStroke)
    IN  Rectangle(x0, y0, Sub(x1, x0), Sub(y1, y0))

\* VectorGroup.getBounds, from the bounds of the objects of the group
unionOfBounds(bs) ==
    IF bs = {} THEN Rectangle(Num(0), Num(0), Num(0), Num(0))
    ELSE LET minX == CHOOSE v \in {b.x : b \in bs} : \A b \in bs : Le(v, b.x)
             minY == CHOOSE v \in {b.y : b \in bs} : \A b \in bs : Le(v, b.y)
             maxX == CHOOSE v \in {Add(b.x, b.width) : b \in bs} :
                         \A b \in bs : Ge(v, Add(b.x, b.width))
             maxY == CHOOSE v \in {Add(b.y, b.height) : b \in bs} :
                         \A b \in bs : Ge(v, Add(b.y, b.height))
         IN  Rectangle(minX, minY, Sub(maxX, minX), Sub(maxY, minY))

\* getBounds() of each kind
RECURSIVE getBounds(_)
getBounds(o) ==
    CASE o.kind = "VectorGroup" ->
            unionOfBounds({getBounds(o.objects[i]) : i \in DOMAIN o.objects})
      [] o.kind = "Object" ->
            Rectangle(o.x, o.y, o.width, o.height)
      [] o.kind = "VectorLine" ->
            StrokedBox(Min2(o.x1, o.x2), Min2(o.y1, o.y2),
                       Max2(o.x1, o.x2), Max2(o.y1, o.y2))
      [] o.kind = "VectorCircle" ->
            Rectangle(Sub(Sub(o.x, o.radius), halfStroke),
                      Sub(Sub(o.y, o.radius), halfStroke),
                      Mul(Add(o.radius, halfStroke), Two),
                      Mul(Add(o.radius, halfStroke), Two))
      [] o.kind = "VectorBezier" ->
            StrokedBox(Min4(o.x1, o.cp1x, o.cp2x, o.x2), Min4(o.y1, o.cp1y, o.cp2y, o.y2),
                       Max4(o.x1, o.cp1x, o.cp2x, o.x2), Max4(o.y1, o.cp1y, o.cp2y, o.y2))
      [] o.kind = "VectorText" ->
            LET width == Mul(Mul(Num(Len(o.text)), o.fontSize), Frac(6, 10))
                height == Mul(o.fontSize, Frac(12, 10))
            IN  Rectangle(Sub(o.x, halfStroke),
                          Sub(Sub(o.y, height), halfStroke),
                          Add(width, Num(strokeWidth)),
                          Add(height, Num(strokeWidth)))
      [] OTHER ->  \* VectorRectangle, VectorSVG
            Rectangle(Sub(o.x, halfStroke), Sub(o.y, halfStroke),
                      Add(o.width, Num(strokeWidth)), Add(o.height, Num(strokeWidth)))

-----------------------------------------------------------------------------
(* QuadTree *)

\* new QuadTree(boundary, maxObjects, maxLevels, level)
QuadTree(boundary, level) ==
    [boundary |-> boundary, level |-> level, objects |-> <<>>, nodes |-> <<>>,
     divided |-> FALSE, nodeCount |-> 1]

\* a subdivide that numbers the quadrants column by column: NW, SW, NE, SE
subdivideByColumns(t) ==
    LET x == t.boundary.x
        y == t.boundary.y
        w == Div(t.boundary.width, Two)
        h == Div(t.boundary.height, Two)
    IN  [t EXCEPT !.nodes = << QuadTree(Rectangle(x, y, w, h), t.level + 1),
                               QuadTree(Rectangle(x, Add(y, h), w, h), t.level + 1),
                               QuadTree(Rectangle(Add(x, w), y, w, h), t.level + 1),
                               QuadTree(Rectangle(Add(x, w), Add(y, h), w, h), t.level + 1) >>,
                  !.divided = TRUE,
                  !.nodeCount = @ + 4]

\* QuadTree.subdivide: nodes[0..3] of the program are nodes[1..4] here
subdivide(t) ==
    LET x == t.boundary.x
        y == t.boundary.y
        w == Div(t.boundary.width, Two)
        h == Div(t.boundary.height, Two)
    IN  [t EXCEPT !.nodes = << QuadTree(Rectangle(x, y, w, h), t.level + 1),
                               QuadTree(Rectangle(Add(x, w), y, w, h), t.level + 1),
                               QuadTree(Rectangle(x, Add(y, h), w, h), t.level + 1),
                               QuadTree(Rectangle(Add(x, w), Add(y, h), w, h), t.level + 1) >>,
                  !.divided = TRUE,
                  !.nodeCount = @ + 4]

\* QuadTree.getIndex: 0..3, or -1 when the object fits no single quadrant
getIndex(t, objectBounds) ==
    IF ~ t.divided THEN -1
    ELSE
    LET verticalMidpoint == Add(t.boundary.x, Div(t.boundary.width, Two))
        horizontalMidpoint == Add(t.boundary.y, Div(t.boundary.height, Two))
        topQuadrant == /\ Lt(objectBounds.y, horizontalMidpoint)
                       /\ Lt(Add(objectBounds.y, objectBounds.height), horizontalMidpoint)
        bottomQuadrant == Gt(objectBounds.y, horizontalMidpoint)
    IN  IF /\ Lt(objectBounds.x, verticalMidpoint)
           /\ Lt(Add(objectBounds.x, objectBounds.width), verticalMidpoint)
        THEN (IF topQuadrant THEN 0 ELSE IF bottomQuadrant THEN 2 ELSE -1)
        ELSE IF Gt(objectBounds.x, verticalMidpoint)
        THEN (IF topQuadrant THEN 1 ELSE IF bottomQuadrant THEN 3 ELSE -1)
        ELSE -1

\* QuadTree.insert of object id o, whose geometry is os[o]:
\* the tree after the call and the value returned
RECURSIVE insert(_, _, _)
insert(t, o, os) ==
    IF ~ intersects(t.boundary, getBounds(os[o]))
    THEN [tree |-> t, ret |-> FALSE]
    ELSE IF Len(t.objects) < maxObjects \/ t.level >= maxLevels
    THEN [tree |-> [t EXCEPT !.objects = Append(@, o)], ret |-> TRUE]
    ELSE
    LET td == IF t.divided THEN t ELSE subdivide(t)
        index == getIndex(td, getBounds(os[o]))
    IN  IF index # -1
        THEN LET r == insert(td.nodes[index + 1], o, os)
             IN  [tree |-> [td EXCEPT !.nodes[index + 1] = r.tree], ret |-> r.ret]
        ELSE [tree |-> [td EXCEPT !.objects = Append(@, o)], ret |-> TRUE]

\* QuadTree.query: the ids found, in the order the program pushes them
RECURSIVE query(_, _, _)
query(t, range, os) ==
    IF ~ intersects(t.boundary, range) THEN <<>>
    ELSE
    LET Hit(o) == intersects(range, getBounds(os[o]))
        here == SelectSeq(t.objects, Hit)
    IN  IF t.divided
        THEN here \o query(t.nodes[1], range, os) \o query(t.nodes[2], range, os)
                  \o query(t.nodes[3], range, os) \o query(t.nodes[4], range, os)
        ELSE here

\* VectorObject.minZoom: the least zoom level an object is rendered at
renderMinZoom == Frac(1, 100)

\* VectorObject.maxZoom: the greatest zoom level an object is rendered at
renderMaxZoom == 1000000

\* the zoom level above which the tree takes its extreme-zoom branches
extremeZoom == 10000

\* Math.log10(z), for z a power of ten
RECURSIVE log10(_)
log10(z) == IF Ge(z, Num(10)) THEN 1 + log10(Div(z, Num(10))) ELSE 0

\* Math.floor(Math.log2(z)), for z > 0
RECURSIVE floorLog2(_)
floorLog2(z) ==
    IF Ge(z, Two) THEN floorLog2(Div(z, Two)) + 1
    ELSE IF Lt(z, Num(1)) THEN floorLog2(Mul(z, Two)) - 1
    ELSE 0

\* QuadTree.calculateLODThreshold; above extremeZoom the zoom levels of the
\* model are powers of ten
calculateLODThreshold(zoom) ==
    IF Gt(zoom, Num(extremeZoom))
    THEN Max2(Frac(1, 10), Div(Num(1), Num(log10(zoom))))
    ELSE Max2(Frac(1, 2), Div(Two, zoom))

\* a traversal that goes into the children at every zoom level
shouldTraverseAlways(t, zoom) == TRUE

\* QuadTree.shouldTraverseAtZoom
shouldTraverseAtZoom(t, zoom) ==
    LET depth == floorLog2(zoom) + (IF Gt(zoom, Num(extremeZoom)) THEN 2 ELSE 3)
        maxDepthAtZoom == IF maxLevels < depth THEN maxLevels ELSE depth
    IN  t.level < maxDepthAtZoom

\* the object has a method shouldRenderAtZoom: every VectorObject has
hasShouldRenderAtZoom(o) == o.kind # "Object"

\* VectorObject.shouldRenderAtZoom
baseShouldRenderAtZoom(o, zoom, lodThreshold) ==
    IF Lt(zoom, renderMinZoom) \/ Gt(zoom, Num(renderMaxZoom)) THEN FALSE
    ELSE Ge(Mul(Min2(getBounds(o).width, getBounds(o).height), zoom), lodThreshold)

\* shouldRenderAtZoom(zoomLevel, lodThreshold) of each kind
RECURSIVE shouldRenderAtZoom(_, _, _)
shouldRenderAtZoom(o, zoom, lodThreshold) ==
    CASE o.kind = "VectorCircle" ->
            /\ Ge(Mul(Mul(o.radius, Two), zoom), lodThreshold)
            /\ baseShouldRenderAtZoom(o, zoom, lodThreshold)
      [] o.kind = "VectorText" ->
            /\ Ge(Mul(o.fontSize, zoom), Num(8))
            /\ baseShouldRenderAtZoom(o, zoom, lodThreshold)
      [] o.kind = "VectorSVG" ->
            Ge(Mul(Min2(o.width, o.height), zoom), Mul(lodThreshold, Frac(1, 2)))
      [] o.kind = "VectorGroup" ->
            \E i \in DOMAIN o.objects : shouldRenderAtZoom(o.objects[i], zoom, lodThreshold)
      [] OTHER ->  \* VectorRectangle, VectorLine, VectorBezier
            baseShouldRenderAtZoom(o, zoom, lodThreshold)

\* QuadTree.queryLOD: the ids found, in the order the program pushes them, or
\* the TypeError of calling shouldRenderAtZoom on an object that has none
RECURSIVE queryLOD(_, _, _, _)
queryLOD(t, range, zoom, os) ==
    IF ~ intersects(t.boundary, range) THEN [found |-> <<>>, threw |-> FALSE]
    ELSE
    LET Hit(o) == intersects(range, getBounds(os[o]))
        Visible(o) == shouldRenderAtZoom(os[o], zoom, calculateLODThreshold(zoom))
    IN  IF \E i \in DOMAIN t.objects :
               Hit(t.objects[i]) /\ ~ hasShouldRenderAtZoom(os[t.objects[i]])
        THEN [found |-> <<>>, threw |-> TRUE]
        ELSE IF t.divided /\ shouldTraverseAtZoom(t, zoom)
        THEN Only({ IF \E i \in 1 .. 4 : below[i].threw
                    THEN [found |-> <<>>, threw |-> TRUE]
                    ELSE [found |-> SelectSeq(SelectSeq(t.objects, Hit), Visible)
                                        \o below[1].found \o below[2].found
                                        \o below[3].found \o below[4].found,
                          threw |-> FALSE] :
                    below \in {[i \in 1 .. 4 |-> queryLOD(t.nodes[i], range, zoom, os)]} })
        ELSE [found |-> SelectSeq(SelectSeq(t.objects, Hit), Visible), threw |-> FALSE]

\* a clear that forgets the children and keeps the objects of the node
clearNodesOnly(t) == [t EXCEPT !.nodes = <<>>, !.divided = FALSE, !.nodeCount = 1]

\* QuadTree.clear
clear(t) == [t EXCEPT !.objects = <<>>, !.nodes = <<>>, !.divided = FALSE, !.nodeCount = 1]

\* QuadTree.getAllObjects: local objects, then each child's, in order
RECURSIVE getAllObjects(_)
getAllObjects(t) ==
    IF t.divided
    THEN t.objects \o getAllObjects(t.nodes[1]) \o getAllObjects(t.nodes[2])
                   \o getAllObjects(t.nodes[3]) \o getAllObjects(t.nodes[4])
    ELSE t.objects

\* QuadTree.getNodeCount
RECURSIVE getNodeCount(_)
getNodeCount(t) ==
    IF t.divided
    THEN 1 + getNodeCount(t.nodes[1]) + getNodeCount(t.nodes[2])
           + getNodeCount(t.nodes[3]) + getNodeCount(t.nodes[4])
    ELSE 1

\* the loop "for (const object of list) tree.insert(object)"; results are dropped
RECURSIVE insertAll(_, _, _)
insertAll(t, list, os) ==
    IF list = <<>> THEN t
    ELSE insertAll(insert(t, Head(list), os).tree, Tail(list), os)

\* QuadTree.rebuild
rebuild(t, os) == insertAll(clear(t), getAllObjects(t), os)

-----------------------------------------------------------------------------
(* MultiLevelQuadTree *)

\* the base universe handed to the constructor (a small square about the origin)
baseBounds == Rectangle(Num(-16), Num(-16), Num(32), Num(32))

\* a createQuadTreeForLevel that registers a new tree whether or not the level
\* has one
createQuadTreeAlways(trees, level) ==
    [l \in DOMAIN trees \cup {level} |->
        IF l = level
        THEN QuadTree(Rectangle(baseBounds.x, baseBounds.y,
                                baseBounds.width, baseBounds.height), 0)
        ELSE trees[l]]

\* MultiLevelQuadTree.createQuadTreeForLevel: the map after the call
createQuadTreeForLevel(trees, level) ==
    IF level \in DOMAIN trees THEN trees
    ELSE trees @@ (level :> QuadTree(Rectangle(baseBounds.x, baseBounds.y,
                                               baseBounds.width, baseBounds.height), 0))

\* MultiLevelQuadTree.getQuadTreeForLevel: the map after the call; the tree
\* returned is the map's entry for the level
getQuadTreeForLevel(trees, level) ==
    IF level \notin DOMAIN trees THEN createQuadTreeForLevel(trees, level) ELSE trees

\* MultiLevelQuadTree.getObjectBounds (the bounds without the stroke)
getObjectBounds(o) ==
    CASE o.kind = "VectorCircle" ->
            Rectangle(Sub(o.x, o.radius), Sub(o.y, o.radius),
                      Mul(o.radius, Two), Mul(o.radius, Two))
      [] o.kind = "VectorLine" ->
            LET minX == Min2(o.x1, o.x2)
                maxX == Max2(o.x1, o.x2)
                minY == Min2(o.y1, o.y2)
                maxY == Max2(o.y1, o.y2)
            IN  Rectangle(minX, minY, Sub(maxX, minX), Sub(maxY, minY))
      [] o.kind = "VectorBezier" ->
            LET minX == Min4(o.x1, o.x2, o.cp1x, o.cp2x)
                maxX == Max4(o.x1, o.x2, o.cp1x, o.cp2x)
                minY == Min4(o.y1, o.y2, o.cp1y, o.cp2y)
                maxY == Max4(o.y1, o.y2, o.cp1y, o.cp2y)
            IN  Rectangle(minX, minY, Sub(maxX, minX), Sub(maxY, minY))
      [] o.kind = "VectorText" ->
            LET estimatedWidth == Mul(Mul(Num(Len(o.text)), o.fontSize), Frac(6, 10))
                estimatedHeight == Mul(o.fontSize, Frac(12, 10))
            IN  Rectangle(o.x, Sub(o.y, estimatedHeight), estimatedWidth, estimatedHeight)
      [] o.kind = "VectorGroup" ->  \* the fallback for unknown kinds: no x, y,
                                    \* width, height or radius
            Rectangle(Num(0), Num(0), Num(1), Num(1))
      [] OTHER ->  \* VectorRectangle, VectorSVG
            Rectangle(o.x, o.y, o.width, o.height)

\* p' = center + (p - center) * scaleFactor
ScaleAbout(p, center, scaleFactor) == Add(center, Mul(Sub(p, center), scaleFactor))

\* MultiLevelQuadTree.scaleObjectRelativeToPoint: the object after the call
scaleObjectRelativeToPoint(o, scaleFactor, centerX, centerY) ==
    CASE o.kind = "VectorCircle" ->
            [o EXCEPT !.x = ScaleAbout(@, centerX, scaleFactor),
                      !.y = ScaleAbout(@, centerY, scaleFactor),
                      !.radius = Mul(@, scaleFactor)]
      [] o.kind \in {"VectorRectangle", "VectorSVG"} ->
            [o EXCEPT !.x = ScaleAbout(@, centerX, scaleFactor),
                      !.y = ScaleAbout(@, centerY, scaleFactor),
                      !.width = Mul(@, scaleFactor),
                      !.height = Mul(@, scaleFactor)]
      [] o.kind = "VectorLine" ->
            [o EXCEPT !.x1 = ScaleAbout(@, centerX, scaleFactor),
                      !.y1 = ScaleAbout(@, centerY, scaleFactor),
                      !.x2 = ScaleAbout(@, centerX, scaleFactor),
                      !.y2 = ScaleAbout(@, centerY, scaleFactor)]
      [] o.kind = "VectorBezier" ->
            [o EXCEPT !.x1 = ScaleAbout(@, centerX, scaleFactor),
                      !.y1 = ScaleAbout(@, centerY, scaleFactor),
                      !.x2 = ScaleAbout(@, centerX, scaleFactor),
                      !.y2 = ScaleAbout(@, centerY, scaleFactor),
                      !.cp1x = ScaleAbout(@, centerX, scaleFactor),
                      !.cp1y = ScaleAbout(@, centerY, scaleFactor),
                      !.cp2x = ScaleAbout(@, centerX, scaleFactor),
                      !.cp2y = ScaleAbout(@, centerY, scaleFactor)]
      [] o.kind = "VectorText" ->
            [o EXCEPT !.x = ScaleAbout(@, centerX, scaleFactor),
                      !.y = ScaleAbout(@, centerY, scaleFactor),
                      !.fontSize = Mul(@, scaleFactor)]
      [] OTHER -> o

\* an expandQuadTreeBounds that takes the union of the universe and the
\* bounds as the new universe, with no padding
expandWithoutPadding(quadTree, objBounds, os) ==
    LET currentBounds == quadTree.boundary
        newMinX == Min2(currentBounds.x, objBounds.x)
        newMinY == Min2(currentBounds.y, objBounds.y)
        newMaxX == Max2(Add(currentBounds.x, currentBounds.width),
                        Add(objBounds.x, objBounds.width))
        newMaxY == Max2(Add(currentBounds.y, currentBounds.height),
                        Add(objBounds.y, objBounds.height))
        expandedBounds == Rectangle(newMinX, newMinY, Sub(newMaxX, newMinX),
                                    Sub(newMaxY, newMinY))
        newQuadTree == insertAll(QuadTree(expandedBounds, 0),
                                 getAllObjects(quadTree), os)
    IN  [quadTree EXCEPT !.boundary = newQuadTree.boundary,
                         !.objects = newQuadTree.objects,
                         !.nodes = newQuadTree.nodes,
                         !.divided = newQuadTree.divided]

\* MultiLevelQuadTree.expandQuadTreeBounds: the tree after the call.  The
\* program copies boundary, objects, nodes and divided from the new tree and
\* leaves the old tree's level and nodeCount as they were.
expandQuadTreeBounds(quadTree, objBounds, os) ==
    LET currentBounds == quadTree.boundary
        newMinX == Min2(currentBounds.x, objBounds.x)
        newMinY == Min2(currentBounds.y, objBounds.y)
        newMaxX == Max2(Add(currentBounds.x, currentBounds.width),
                        Add(objBounds.x, objBounds.width))
        newMaxY == Max2(Add(currentBounds.y, currentBounds.height),
                        Add(objBounds.y, objBounds.height))
        padding == Mul(Max2(Sub(newMaxX, newMinX), Sub(newMaxY, newMinY)), Frac(1, 10))
        expandedBounds == Rectangle(Sub(newMinX, padding), Sub(newMinY, padding),
                                    Add(Sub(newMaxX, newMinX), Mul(padding, Two)),
                                    Add(Sub(newMaxY, newMinY), Mul(padding, Two)))
        existingObjects == getAllObjects(quadTree)
        copied(newQuadTree) == [quadTree EXCEPT !.boundary = newQuadTree.boundary,
                                                !.objects = newQuadTree.objects,
                                                !.nodes = newQuadTree.nodes,
                                                !.divided = newQuadTree.divided]
    IN  copied(insertAll(QuadTree(expandedBounds, 0), existingObjects, os))

\* the test "object exceeds bounds" of transferObjectsToLevel
exceedsBounds(objBounds, quadBounds) ==
    \/ Lt(objBounds.x, quadBounds.x)
    \/ Lt(objBounds.y, quadBounds.y)
    \/ Gt(Add(objBounds.x, objBounds.width), Add(quadBounds.x, quadBounds.width))
    \/ Gt(Add(objBounds.y, objBounds.height), Add(quadBounds.y, quadBounds.height))

\* one pass of the transfer loop over the remaining objects: scale the
\* object, expand the target tree if needed, insert it
RECURSIVE transferLoop(_, _, _, _, _, _)
transferLoop(objects, toQuadTree, os, scaleFactor, centerX, centerY) ==
    IF objects = <<>> THEN [tree |-> toQuadTree, objs |-> os]
    ELSE
    LET obj == Head(objects)
    IN  \* each step is evaluated once and named: the objects with obj scaled
        \* (os1), the bounds of obj (objBounds), the target tree after the
        \* expansion (t1)
        Only({ Only({ Only({ transferLoop(Tail(objects), insert(t1, obj, os1).tree, os1,
                                          scaleFactor, centerX, centerY)
                  : t1 \in { IF exceedsBounds(objBounds, toQuadTree.boundary)
                             THEN expandQuadTreeBounds(toQuadTree, objBounds, os1)
                             ELSE toQuadTree } })
               : objBounds \in { getObjectBounds(os1[obj]) } })
            : os1 \in { IF scaleFactor # Num(1)
                        THEN [os EXCEPT ![obj] = scaleObjectRelativeToPoint(
                                                     @, scaleFactor, centerX, centerY)]
                        ELSE os } })

\* MultiLevelQuadTree.transferObjectsToLevel: the map and the objects after
\* the call.  fromLevel = toLevel makes both names the same tree, which is
\* cleared and then refilled.
transferObjectsToLevel(trees, os, fromLevel, toLevel, scaleFactor, centerX, centerY) ==
    LET trees1 == getQuadTreeForLevel(getQuadTreeForLevel(trees, fromLevel), toLevel)
        objects == getAllObjects(trees1[fromLevel])
        trees2 == [trees1 EXCEPT ![fromLevel] = clear(@)]
    IN  Only({ [trees |-> [trees2 EXCEPT ![toLevel] = rebuild(done.tree, done.objs)],
                objs |-> done.objs]
               : done \in { transferLoop(objects, trees2[toLevel], os,
                                         scaleFactor, centerX, centerY) } })

-----------------------------------------------------------------------------
(* The state machine *)

\* the set of elements of a sequence
Range(s) == {s[i] : i \in DOMAIN s}

\* the whole program state, kept in `last` as the state an operation started in
Snapshot ==
    [objs |-> objs, trees |-> levelQuadTrees, currentLevel |-> currentLevel,
     viewportX |-> viewportX, viewportY |-> viewportY, zoomLevel |-> zoomLevel,
     zoomLevelCount |-> zoomLevelCount, lastResetTime |-> lastResetTime,
     targetZoom |-> targetZoom, targetX |-> targetX, targetY |-> targetY,
     isAnimating |-> isAnimating, live |-> live, now |-> now,
     transfers |-> transfers]

\* the record of an operation; an operation fills in the fields it has
NoOp ==
    [op |-> "none", obj |-> 0, ret |-> FALSE, fromLevel |-> 0, toLevel |-> 0,
     scaleFactor |-> Num(1), centerX |-> Num(0), centerY |-> Num(0),
     requested |-> Num(0), focusX |-> Num(0), focusY |-> Num(0),
     range |-> Rectangle(Num(0), Num(0), Num(0), Num(0)),
     outcome |-> "none", returned |-> "none", notified |-> <<>>, pre |-> <<>>]

\* what `before` keeps of the previous operation: a transfer or a reset
\* upwards, or nothing
Earlier == IF last.op = "transfer" \/ last.outcome = "up" THEN last ELSE NoOp

\* the state after the constructors of InfiniteZoomEngine and MultiLevelQuadTree
Init ==
    /\ objs = <<>>
    /\ levelQuadTrees = createQuadTreeForLevel(<<>>, 0)
    /\ currentLevel = 0
    /\ viewportX = Num(0)
    /\ viewportY = Num(0)
    /\ zoomLevel = Num(1)
    /\ zoomLevelCount = 0
    /\ lastResetTime = 0
    /\ targetZoom = Num(1)
    /\ targetX = Num(0)
    /\ targetY = Num(0)
    /\ isAnimating = FALSE
    /\ now = 0
    /\ transfers = 0
    /\ live = {}
    /\ last = NoOp
    /\ before = NoOp

\* the objects the caller draws
QTShapes ==
    { VectorCircle(Num(-8), Num(-8), Num(3)),               \* inside the NW quadrant
      VectorCircle(Num(-12), Num(-12), Num(1)),             \* inside NW of NW
      VectorRectangle(Num(4), Num(4), Num(2), Num(2)),      \* inside NW of SE
      VectorLine(Num(-4), Num(0), Num(4), Num(0)),          \* across both midlines
      VectorRectangle(Num(14), Num(2), Num(6), Num(2)),     \* sticks out of the universe
      VectorCircle(Num(24), Num(24), Num(1)),               \* outside the universe
      VectorRectangle(Num(6), Num(-6), Num(-10), Num(2)) }  \* drawn right to left

\* engine.addObject(new Vector...(...)): MultiLevelQuadTree.insert into the
\* current level's tree
InsertObject(shape) ==
    /\ LET id == Len(objs) + 1
           os == Append(objs, shape)
           trees == getQuadTreeForLevel(levelQuadTrees, currentLevel)
           r == insert(trees[currentLevel], id, os)
       IN  /\ objs' = os
           /\ levelQuadTrees' = [trees EXCEPT ![currentLevel] = r.tree]
           /\ live' = IF r.ret THEN live \cup {id} ELSE live
           /\ last' = [NoOp EXCEPT !.op = "insert", !.obj = id, !.ret = r.ret,
                                   !.pre = Snapshot]
    /\ before' = Earlier
    /\ UNCHANGED <<currentLevel, now, transfers>>
    /\ UNCHANGED engineVars

\* the caller draws no more than MaxObjs objects
AddObject(shape) == Len(objs) < MaxObjs /\ InsertObject(shape)

\* engine.clearAll(): MultiLevelQuadTree.clear of the current level's tree
ClearAll ==
    /\ LET trees == getQuadTreeForLevel(levelQuadTrees, currentLevel)
       IN  /\ levelQuadTrees' = [trees EXCEPT ![currentLevel] = clear(@)]
           /\ live' = live \ Range(getAllObjects(trees[currentLevel]))
    /\ last' = [NoOp EXCEPT !.op = "clear", !.pre = Snapshot]
    /\ before' = Earlier
    /\ UNCHANGED <<objs, currentLevel, now, transfers>>
    /\ UNCHANGED engineVars

\* engine.rebuildQuadTree(): MultiLevelQuadTree.rebuild of the current level's tree
RebuildQuadTree ==
    /\ LET trees == getQuadTreeForLevel(levelQuadTrees, currentLevel)
       IN  levelQuadTrees' = [trees EXCEPT ![currentLevel] = rebuild(@, objs)]
    /\ last' = [NoOp EXCEPT !.op = "rebuild", !.pre = Snapshot]
    /\ before' = Earlier
    /\ UNCHANGED <<objs, currentLevel, now, transfers, live>>
    /\ UNCHANGED engineVars

\* one tree and its callers: insert, clear, rebuild
NextQT ==
    \/ \E shape \in QTShapes : AddObject(shape)
    \/ ClearAll
    \/ RebuildQuadTree

SpecQT == Init /\ [][NextQT]_vars

\* how many objects are drawn into one corner of the universe
MaxDeepObjs == 7

\* a small circle inside the NW quadrant of the NW quadrant, and a line across
\* both midlines
DeepShapes ==
    { VectorCircle(Num(-12), Num(-12), Num(1)),
      VectorLine(Num(-4), Num(0), Num(4), Num(0)) }

\* one tree filled down to its deepest level, cleared and rebuilt
NextDeep ==
    \/ \E shape \in DeepShapes : Len(objs) < MaxDeepObjs /\ InsertObject(shape)
    \/ ClearAll
    \/ RebuildQuadTree

SpecDeep == Init /\ [][NextDeep]_vars

\* how many shapes are drawn with the mouse
MaxDrawObjs == 3

\* where the mouse goes down, and where it is dragged to, in world coordinates
MouseDownPositions == { <<Num(6), Num(-2)>>, <<Num(-12), Num(-12)>> }

MouseMovePositions == { <<Num(-24), Num(2)>>, <<Num(12), Num(8)>> }

\* the shape the drawing tool creates where the mouse goes down
tempShapeOf(tool, worldPos) ==
    IF tool = "rectangle"
    THEN VectorRectangle(worldPos[1], worldPos[2], Num(1), Num(1))
    ELSE VectorLine(worldPos[1], worldPos[2], worldPos[1], worldPos[2])

\* onDrawingMouseDown with the rectangle or the line tool: the shape is
\* created and added to the engine
OnDrawingMouseDown(tool, worldPos) ==
    /\ Len(objs) < MaxDrawObjs
    /\ InsertObject(tempShapeOf(tool, worldPos))

\* onDrawingMouseMove while a shape is drawn: the shape, the object added
\* last, follows the mouse, and the current level's tree is rebuilt
OnDrawingMouseMove(worldPos) ==
    /\ objs # <<>>
    /\ last.op \in {"insert", "rebuild"}
    /\ last.obj = Len(objs)
    /\ LET id == Len(objs)
           tempShape == objs[id]
           moved == IF tempShape.kind = "VectorRectangle"
                    THEN [tempShape EXCEPT !.width = Sub(worldPos[1], tempShape.x),
                                           !.height = Sub(worldPos[2], tempShape.y)]
                    ELSE [tempShape EXCEPT !.x2 = worldPos[1], !.y2 = worldPos[2]]
           os == [objs EXCEPT ![id] = moved]
           trees == getQuadTreeForLevel(levelQuadTrees, currentLevel)
       IN  /\ objs' = os
           /\ \E t \in {rebuild(trees[currentLevel], os)} :
                 /\ levelQuadTrees' = [trees EXCEPT ![currentLevel] = t]
                 /\ live' = (live \ {id}) \cup (Range(getAllObjects(t)) \cap {id})
           /\ last' = [NoOp EXCEPT !.op = "rebuild", !.obj = id, !.pre = Snapshot]
    /\ before' = Earlier
    /\ UNCHANGED <<currentLevel, now, transfers>>
    /\ UNCHANGED engineVars

\* shapes drawn with the mouse, one after the other
NextDraw ==
    \/ \E tool \in {"rectangle", "line"}, p \in MouseDownPositions :
          OnDrawingMouseDown(tool, p)
    \/ \E p \in MouseMovePositions : OnDrawingMouseMove(p)

SpecDraw == Init /\ [][NextDraw]_vars

\* the objects handed to the manager, of several kinds
MLShapes ==
    { VectorCircle(Num(4), Num(-4), Num(1)),
      VectorText(Num(-6), Num(6), <<"a", "b">>, Num(5)),
      VectorRectangle(Num(6), Num(-2), Num(-14), Num(2)) }  \* drawn right to left

\* the levels the manager is asked for
Levels == {0, 1}

\* the scale factors of a transfer
ScaleFactors == { Num(2), Frac(1, 2) }

\* the centers of a transfer
Centers == { <<Num(4), Num(-4)>> }

\* MultiLevelQuadTree.setCurrentLevel
SetCurrentLevel(level) ==
    /\ currentLevel' = level
    /\ levelQuadTrees' = IF level \notin DOMAIN levelQuadTrees
                         THEN createQuadTreeForLevel(levelQuadTrees, level)
                         ELSE levelQuadTrees
    /\ UNCHANGED <<objs, now, transfers, live, last, before>>
    /\ UNCHANGED engineVars

\* MultiLevelQuadTree.transferObjectsToLevel(fromLevel, toLevel, scaleFactor,
\* centerX, centerY), called on the manager
Transfer(fromLevel, toLevel, scaleFactor, centerX, centerY) ==
    /\ transfers < MaxTransfers
    /\ \E r \in {transferObjectsToLevel(levelQuadTrees, objs, fromLevel, toLevel,
                                         scaleFactor, centerX, centerY)} :
           /\ objs' = r.objs
           /\ levelQuadTrees' = r.trees
    /\ transfers' = transfers + 1
    /\ last' = [NoOp EXCEPT !.op = "transfer", !.fromLevel = fromLevel,
                            !.toLevel = toLevel, !.scaleFactor = scaleFactor,
                            !.centerX = centerX, !.centerY = centerY,
                            !.pre = Snapshot]
    /\ before' = Earlier
    /\ UNCHANGED <<currentLevel, now, live>>
    /\ UNCHANGED engineVars

\* the manager and its callers: insert, rebuild, level switch, transfer
NextML ==
    \/ \E shape \in MLShapes : Len(objs) < MaxMLObjs /\ AddObject(shape)
    \/ \E level \in Levels : SetCurrentLevel(level)
    \/ \E fromLevel \in Levels, toLevel \in Levels, f \in ScaleFactors, c \in Centers :
          /\ fromLevel # toLevel
          /\ Transfer(fromLevel, toLevel, f, c[1], c[2])

SpecML == Init /\ [][NextML]_vars

\* how many objects the manager is handed when a group is among them
MaxGroupObjs == 2

\* a circle, and a group of one circle
GroupShapes ==
    { VectorCircle(Num(4), Num(-4), Num(1)),
      VectorGroup(<<VectorCircle(Num(-4), Num(4), Num(1))>>) }

\* the manager handed circles and groups, and its transfers
NextGroup ==
    \/ \E shape \in GroupShapes : Len(objs) < MaxGroupObjs /\ AddObject(shape)
    \/ \E fromLevel \in Levels, toLevel \in Levels, f \in ScaleFactors, c \in Centers :
          /\ fromLevel # toLevel
          /\ Transfer(fromLevel, toLevel, f, c[1], c[2])

SpecGroup == Init /\ [][NextGroup]_vars

\* how many objects the manager is handed while its levels are asked for
MaxLevelObjs == 1

\* MultiLevelQuadTree.createQuadTreeForLevel(level), called on the manager
CreateQuadTreeForLevel(level) ==
    /\ \E trees \in {createQuadTreeForLevel(levelQuadTrees, level)} :
          /\ levelQuadTrees' = trees
          /\ last' = [NoOp EXCEPT !.op = "createQuadTreeForLevel",
                                  !.toLevel = level, !.returned = trees[level],
                                  !.pre = Snapshot]
    /\ before' = Earlier
    /\ UNCHANGED <<objs, currentLevel, transfers, live, now>>
    /\ UNCHANGED engineVars

\* MultiLevelQuadTree.getQuadTreeForLevel(level), called on the manager
GetQuadTreeForLevel(level) ==
    /\ \E trees \in {getQuadTreeForLevel(levelQuadTrees, level)} :
          /\ levelQuadTrees' = trees
          /\ last' = [NoOp EXCEPT !.op = "getQuadTreeForLevel",
                                  !.toLevel = level, !.returned = trees[level],
                                  !.pre = Snapshot]
    /\ before' = Earlier
    /\ UNCHANGED <<objs, currentLevel, transfers, live, now>>
    /\ UNCHANGED engineVars

\* the object the manager is handed meanwhile
LevelShapes == { VectorCircle(Num(4), Num(-4), Num(1)) }

\* the manager asked for its levels between inserts, clears, level switches
\* and transfers
NextLevels ==
    \/ \E shape \in LevelShapes : Len(objs) < MaxLevelObjs /\ AddObject(shape)
    \/ ClearAll
    \/ \E level \in Levels : SetCurrentLevel(level)
    \/ \E level \in Levels : CreateQuadTreeForLevel(level)
    \/ \E level \in Levels : GetQuadTreeForLevel(level)
    \/ \E fromLevel \in Levels, toLevel \in Levels, f \in ScaleFactors, c \in Centers :
          /\ fromLevel # toLevel
          /\ Transfer(fromLevel, toLevel, f, c[1], c[2])

SpecLevels == Init /\ [][NextLevels]_vars

\* how many objects are inserted before the tree is queried by zoom level
MaxLODObjs == 3

\* a square that goes to the SE quadrant once the root is full, though it is
\* larger than the quadrant; a rectangle far larger than the universe; and an
\* object without shouldRenderAtZoom
LODShapes ==
    { VectorRectangle(Num(2), Num(2), Num(40), Num(40)),
      VectorRectangle(Num(-300), Num(-300), Num(600), Num(600)),
      BoundsOnlyObject(Num(-8), Num(-8), Num(2), Num(2)) }

\* the ranges queried: the universe, and a window in its SE corner
LODRanges ==
    { Rectangle(Num(-16), Num(-16), Num(32), Num(32)),
      Rectangle(Num(10), Num(10), Num(4), Num(4)) }

\* the zoom levels queried at
LODZooms == { Frac(1, 16), Frac(6, 25), Num(1), Num(100000) }

\* MultiLevelQuadTree.queryLOD(range, zoomLevel) on the current level's tree
QueryLOD(range, zoom) ==
    /\ \E r \in {queryLOD(levelQuadTrees[currentLevel], range, zoom, objs)} :
          last' = [NoOp EXCEPT !.op = "queryLOD", !.range = range,
                               !.requested = zoom,
                               !.outcome = IF r.threw THEN "TypeError" ELSE "returned",
                               !.returned = r.found,
                               !.pre = Snapshot]
    /\ before' = Earlier
    /\ UNCHANGED <<objs, levelQuadTrees, currentLevel, transfers, live, now>>
    /\ UNCHANGED engineVars

\* one tree, filled and then queried by zoom level
NextLOD ==
    \/ \E shape \in LODShapes : Len(objs) < MaxLODObjs /\ AddObject(shape)
    \/ \E range \in LODRanges, zoom \in LODZooms : QueryLOD(range, zoom)

SpecLOD == Init /\ [][NextLOD]_vars

-----------------------------------------------------------------------------
(* InfiniteZoomEngine: zoom requests and zoom level resets *)

\* this.minZoom = 0.001
minZoom == Frac(1, 1000)

\* this.maxZoom
maxZoom == 1000000

\* this.zoomResetThreshold
zoomResetThreshold == 500000

\* this.zoomResetTarget
zoomResetTarget == 2

\* this.zoomResetLowerThreshold
zoomResetLowerThreshold == 1

\* this.zoomResetUpperTarget
zoomResetUpperTarget == 250000

\* this.resetCooldown, in ms
resetCooldown == 100

\* the level count beyond which performZoomLevelReset refuses to reset
excessiveLevelCount == 100

\* the canvas, sized by resize() to the window
canvas == [width |-> Num(800), height |-> Num(600)]

\* how far the clock is followed, in ms
MaxTime == 200

\* how many objects are drawn into the scene while zooming
MaxSceneObjs == 1

\* a screenToWorld that leaves the position of the viewport out
screenToWorldUnpanned(screenX, screenY, vx, vy, z) ==
    [x |-> Div(Sub(screenX, Div(canvas.width, Two)), z),
     y |-> Div(Sub(screenY, Div(canvas.height, Two)), z)]

\* InfiniteZoomEngine.screenToWorld, for a viewport (vx, vy) and a zoom level z
screenToWorld(screenX, screenY, vx, vy, z) ==
    [x |-> Add(Div(Sub(screenX, Div(canvas.width, Two)), z), vx),
     y |-> Add(Div(Sub(screenY, Div(canvas.height, Two)), z), vy)]

\* InfiniteZoomEngine.worldToScreen, for a viewport (vx, vy) and a zoom level z
worldToScreen(worldX, worldY, vx, vy, z) ==
    [x |-> Add(Mul(Sub(worldX, vx), z), Div(canvas.width, Two)),
     y |-> Add(Mul(Sub(worldY, vy), z), Div(canvas.height, Two))]

\* a clamp that forgets the lower end of the zoom range
clampZoomUpperOnly(zoom) == Min2(Num(maxZoom), zoom)

\* Math.max(this.minZoom, Math.min(this.maxZoom, zoom))
clampZoom(zoom) == Max2(minZoom, Min2(Num(maxZoom), zoom))

\* a decision that resets downwards whatever the level count
resetDirectionAnyLevel(clampedZoom) ==
    IF Ge(clampedZoom, Num(zoomResetThreshold)) THEN "up"
    ELSE IF Le(clampedZoom, Num(zoomResetLowerThreshold)) THEN "down"
    ELSE "none"

\* the reset a request for the clamped zoom asks for, as zoomTo and setZoom
\* both decide it: "up", "down" or "none"
resetDirection(clampedZoom) ==
    IF Ge(clampedZoom, Num(zoomResetThreshold)) THEN "up"
    ELSE IF Le(clampedZoom, Num(zoomResetLowerThreshold)) /\ zoomLevelCount > 0 THEN "down"
    ELSE "none"

\* a plan whose upward scale factor is the fixed threshold / target, whatever
\* the zoom level
resetPlanFixedFactor(direction) ==
    LET upwardScaleFactor == Div(Num(zoomResetThreshold), Num(zoomResetTarget))
    IN  IF direction = "up"
        THEN [scaleFactor |-> upwardScaleFactor,
              newZoomLevel |-> Num(zoomResetTarget),
              newLevelCount |-> zoomLevelCount + 1]
        ELSE [scaleFactor |-> Div(Num(1), upwardScaleFactor),
              newZoomLevel |-> Num(zoomResetUpperTarget),
              newLevelCount |-> zoomLevelCount - 1]

\* the scale factor, zoom level and level count an accepted reset computes
resetPlan(direction) ==
    IF direction = "up"
    THEN [scaleFactor |-> Div(zoomLevel, Num(zoomResetTarget)),
          newZoomLevel |-> Num(zoomResetTarget),
          newLevelCount |-> zoomLevelCount + 1]
    ELSE LET upwardScaleFactor == Div(Num(zoomResetThreshold), Num(zoomResetTarget))
         IN  [scaleFactor |-> Div(Num(1), upwardScaleFactor),
              newZoomLevel |-> Num(zoomResetUpperTarget),
              newLevelCount |-> zoomLevelCount - 1]

\* a throttle that never holds a reset back
tooSoonNever == FALSE

\* performZoomLevelReset: the reset comes too soon after the last one
tooSoon == now - lastResetTime < resetCooldown

\* getEffectiveZoom: const maxLevelCount
maxLevelCount == 50

\* this.zoomResetThreshold / this.zoomResetTarget, the base of Math.pow in
\* getEffectiveZoom
levelRatio == Div(Num(zoomResetThreshold), Num(zoomResetTarget))

\* Number.MAX_SAFE_INTEGER = 2^53 - 1 = 9007199254740991, written in base
\* 250000: 144115 * 250000^2 + 47018 * 250000 + 240991
MaxSafeDigits == <<144115, 47018, 240991>>

\* the value Number.MAX_SAFE_INTEGER as mant * 250000^exp, its mantissa in
\* digits: 144115 + 47018 / 250000 + 240991 / 250000^2
MAX_SAFE_INTEGER == [mant |-> MaxSafeDigits, exp |-> 2]

\* the number z * levelRatio^k, too large for the integers of the model,
\* written as mant * levelRatio^exp with 1 <= mant < levelRatio
RECURSIVE Sci(_, _)
Sci(z, k) ==
    IF Ge(z, levelRatio) THEN Sci(Div(z, levelRatio), k + 1)
    ELSE IF Gt(z, Num(0)) /\ Lt(z, Num(1)) THEN Sci(Mul(z, levelRatio), k - 1)
    ELSE [mant |-> z, exp |-> k]

\* x * 250000^(Len(digits) - 1) is greater than the number with these digits
RECURSIVE AboveDigits(_, _)
AboveDigits(x, digits) ==
    IF Len(digits) = 1 THEN Gt(x, Num(Head(digits)))
    ELSE IF Ge(x, Num(Head(digits) + 1)) THEN TRUE
    ELSE IF Le(x, Num(Head(digits))) THEN FALSE
    ELSE AboveDigits(Mul(Sub(x, Num(Head(digits))), levelRatio), Tail(digits))

\* getEffectiveZoom: effectiveZoom > Number.MAX_SAFE_INTEGER, for
\* effectiveZoom = z * levelRatio^k and k >= 1.  (The product is finite for
\* every k up to maxLevelCount, so isFinite holds.)
RECURSIVE aboveMaxSafe(_, _)
aboveMaxSafe(z, k) ==
    IF k >= 3 THEN (IF Ge(z, Num(1)) THEN TRUE ELSE aboveMaxSafe(Mul(z, levelRatio), k - 1))
    ELSE IF k = 2 THEN AboveDigits(z, MaxSafeDigits)
    ELSE IF Lt(z, levelRatio) THEN FALSE
    ELSE AboveDigits(Div(z, levelRatio), MaxSafeDigits)

\* an effective zoom that multiplies by the ratio once, whatever the level count
effectiveZoomOneLevel(z, count) ==
    IF count = 0 THEN Sci(z, 0) ELSE Sci(z, 1)

\* InfiniteZoomEngine.getEffectiveZoom, for zoom level z and level count count
effectiveZoomOf(z, count) ==
    IF count = 0 THEN Sci(z, 0)
    ELSE LET cappedLevelCount == IF Abs(count) < maxLevelCount THEN Abs(count)
                                 ELSE maxLevelCount
         IN  IF aboveMaxSafe(z, cappedLevelCount) THEN MAX_SAFE_INTEGER
             ELSE Sci(z, cappedLevelCount)

\* an effective zoom that forgets the level count
getEffectiveZoomOfLevelZero == effectiveZoomOf(zoomLevel, 0)

\* InfiniteZoomEngine.getEffectiveZoom()
getEffectiveZoom == effectiveZoomOf(zoomLevel, zoomLevelCount)

\* a notification sent before the reset has updated the engine
notificationBeforeUpdate(plan, direction) ==
    << <<zoomLevelCount, getEffectiveZoom, direction>> >>

\* performZoomLevelReset: the call of the observer onZoomLevelReset with
\* (this.zoomLevelCount, this.getEffectiveZoom(), direction), after the engine
\* has taken the planned level count and zoom level
notification(plan, direction) ==
    << <<plan.newLevelCount,
         effectiveZoomOf(plan.newZoomLevel, plan.newLevelCount),
         direction>> >>

\* InfiniteZoomEngine.performZoomLevelReset(centerX, centerY, direction), called
\* by the request recorded in op
performZoomLevelReset(op, direction) ==
    IF tooSoon
    THEN \* throttled: nothing changes
         /\ last' = [op EXCEPT !.outcome = "throttled"]
         /\ UNCHANGED <<objs, levelQuadTrees, currentLevel, transfers>>
         /\ UNCHANGED engineVars
    ELSE IF Abs(zoomLevelCount) > excessiveLevelCount
    THEN \* refused: only the time of the last reset changes
         /\ lastResetTime' = now
         /\ last' = [op EXCEPT !.outcome = "refused"]
         /\ UNCHANGED <<objs, levelQuadTrees, currentLevel, transfers>>
         /\ UNCHANGED <<viewportX, viewportY, zoomLevel, zoomLevelCount,
                        targetZoom, targetX, targetY, isAnimating>>
    ELSE
    LET viewportCenter == screenToWorld(Div(canvas.width, Two), Div(canvas.height, Two),
                                        viewportX, viewportY, zoomLevel)
        plan == resetPlan(direction)
        newViewportX == ScaleAbout(viewportX, viewportCenter.x, plan.scaleFactor)
        newViewportY == ScaleAbout(viewportY, viewportCenter.y, plan.scaleFactor)
    IN  /\ lastResetTime' = now
        /\ \E r \in {transferObjectsToLevel(levelQuadTrees, objs, zoomLevelCount,
                                             plan.newLevelCount, plan.scaleFactor,
                                             viewportCenter.x, viewportCenter.y)} :
              /\ objs' = r.objs
              /\ levelQuadTrees' = createQuadTreeForLevel(r.trees, plan.newLevelCount)
        /\ zoomLevelCount' = plan.newLevelCount
        /\ zoomLevel' = plan.newZoomLevel
        /\ targetZoom' = plan.newZoomLevel
        /\ viewportX' = newViewportX
        /\ viewportY' = newViewportY
        /\ targetX' = newViewportX
        /\ targetY' = newViewportY
        /\ currentLevel' = plan.newLevelCount
        /\ transfers' = transfers + 1
        /\ last' = [op EXCEPT !.outcome = direction,
                              !.fromLevel = zoomLevelCount,
                              !.toLevel = plan.newLevelCount,
                              !.scaleFactor = plan.scaleFactor,
                              !.centerX = viewportCenter.x,
                              !.centerY = viewportCenter.y,
                              !.notified = notification(plan, direction)]
        /\ UNCHANGED isAnimating

\* InfiniteZoomEngine.zoomTo(targetZoom, centerX, centerY)
ZoomTo(requested, centerX, centerY) ==
    LET clampedZoom == clampZoom(requested)
        op == [NoOp EXCEPT !.op = "zoomTo", !.requested = requested,
                           !.focusX = centerX, !.focusY = centerY,
                           !.returned = "undefined", !.pre = Snapshot]
    IN  /\ before' = Earlier
        /\ UNCHANGED <<now, live>>
        /\ IF resetDirection(clampedZoom) # "none"
           THEN performZoomLevelReset(op, resetDirection(clampedZoom))
           ELSE
           LET worldPos == screenToWorld(centerX, centerY, viewportX, viewportY, zoomLevel)
               targetScreenPos == worldToScreen(worldPos.x, worldPos.y,
                                                viewportX, viewportY, zoomLevel)
               deltaX == Div(Sub(centerX, targetScreenPos.x), clampedZoom)
               deltaY == Div(Sub(centerY, targetScreenPos.y), clampedZoom)
           IN  /\ targetZoom' = clampedZoom
               /\ targetX' = Add(viewportX, deltaX)
               /\ targetY' = Add(viewportY, deltaY)
               /\ isAnimating' = TRUE
               /\ last' = [op EXCEPT !.outcome = "applied"]
               /\ UNCHANGED <<objs, levelQuadTrees, currentLevel, transfers>>
               /\ UNCHANGED <<viewportX, viewportY, zoomLevel, zoomLevelCount,
                              lastResetTime>>

\* InfiniteZoomEngine.setZoom(newZoom, centerX, centerY)
SetZoom(requested, centerX, centerY) ==
    LET clampedZoom == clampZoom(requested)
        op == [NoOp EXCEPT !.op = "setZoom", !.requested = requested,
                           !.focusX = centerX, !.focusY = centerY,
                           !.returned = "undefined", !.pre = Snapshot]
    IN  /\ before' = Earlier
        /\ UNCHANGED <<now, live>>
        /\ IF resetDirection(clampedZoom) # "none"
           THEN performZoomLevelReset(op, resetDirection(clampedZoom))
           ELSE IF Lt(AbsR(Sub(zoomLevel, clampedZoom)), Frac(1, 100))
           THEN /\ last' = [op EXCEPT !.outcome = "ignored"]
                /\ UNCHANGED <<objs, levelQuadTrees, currentLevel, transfers>>
                /\ UNCHANGED engineVars
           ELSE
           LET worldPos == screenToWorld(centerX, centerY, viewportX, viewportY, zoomLevel)
               targetScreenPos == worldToScreen(worldPos.x, worldPos.y,
                                                viewportX, viewportY, zoomLevel)
               deltaX == Div(Sub(centerX, targetScreenPos.x), clampedZoom)
               deltaY == Div(Sub(centerY, targetScreenPos.y), clampedZoom)
           IN  /\ targetZoom' = clampedZoom
               /\ targetX' = Add(viewportX, deltaX)
               /\ targetY' = Add(viewportY, deltaY)
               /\ isAnimating' = TRUE
               /\ last' = [op EXCEPT !.outcome = "applied"]
               /\ UNCHANGED <<objs, levelQuadTrees, currentLevel, transfers>>
               /\ UNCHANGED <<viewportX, viewportY, zoomLevel, zoomLevelCount,
                              lastResetTime>>

\* InfiniteZoomEngine.resetView().  scaleAllObjects calls onScaleObjects,
\* which is null and never set: no object is scaled, and the trees and the
\* manager's current level stay as they are.
ResetView ==
    /\ targetZoom' = Num(1)
    /\ targetX' = Num(0)
    /\ targetY' = Num(0)
    /\ zoomLevelCount' = 0
    /\ isAnimating' = TRUE
    /\ last' = [NoOp EXCEPT !.op = "resetView", !.pre = Snapshot]
    /\ before' = Earlier
    /\ UNCHANGED <<objs, levelQuadTrees, currentLevel, transfers, live, now>>
    /\ UNCHANGED <<viewportX, viewportY, zoomLevel, lastResetTime>>

\* time passes between two calls
AdvanceTime(d) ==
    /\ now + d <= MaxTime
    /\ now' = now + d
    /\ UNCHANGED <<objs, levelQuadTrees, currentLevel, transfers, live, last, before>>
    /\ UNCHANGED engineVars

\* the objects drawn into the scene while zooming
SceneShapes ==
    { VectorCircle(Num(4), Num(-4), Num(1)),
      VectorRectangle(Num(6), Num(-2), Num(-14), Num(2)) }  \* drawn right to left

\* the zoom factors requested
ZoomRequests ==
    { Frac(1, 2000), Num(1), Num(300), Num(zoomResetThreshold), Num(2000000) }

\* the screen point zoomed about, away from the middle of the canvas
FocusPoints == { <<Num(100), Num(50)>> }

Next ==
    \/ \E shape \in SceneShapes : Len(objs) < MaxSceneObjs /\ AddObject(shape)
    \/ \E z \in ZoomRequests, c \in FocusPoints : ZoomTo(z, c[1], c[2])
    \/ \E z \in ZoomRequests, c \in FocusPoints : SetZoom(z, c[1], c[2])
    \/ \E d \in {50, 100} : AdvanceTime(d)
    \/ ResetView

Spec == Init /\ [][Next]_vars

-----------------------------------------------------------------------------
(* The engine zoomed in again and again, and its effective zoom *)

\* how far the clock is followed while zooming in again and again, in ms
MaxClimbTime == 10300

\* the cooldown passes after a reset
WaitForCooldown ==
    /\ tooSoon
    /\ now + resetCooldown <= MaxClimbTime
    /\ now' = now + resetCooldown
    /\ UNCHANGED <<objs, levelQuadTrees, currentLevel, transfers, live, last, before>>
    /\ UNCHANGED engineVars

\* a call of InfiniteZoomEngine.getEffectiveZoom()
GetEffectiveZoom ==
    /\ last' = [NoOp EXCEPT !.op = "getEffectiveZoom",
                            !.returned = getEffectiveZoom,
                            !.pre = Snapshot]
    /\ before' = Earlier
    /\ UNCHANGED <<objs, levelQuadTrees, currentLevel, transfers, live, now>>
    /\ UNCHANGED engineVars

NextClimb ==
    \/ \E c \in FocusPoints : ZoomTo(Num(zoomResetThreshold), c[1], c[2])
    \/ WaitForCooldown
    \/ GetEffectiveZoom

SpecClimb == Init /\ [][NextClimb]_vars

\* the level counts the effective zoom is asked at
MaxEZCount == 52

\* the zoom levels the effective zoom is asked at
EZZoomLevels ==
    { Frac(1, 1000), Num(1), Num(2), Num(300), Num(144115), Num(144116),
      Num(zoomResetUpperTarget), Num(499999) }

\* the trees of the levels 0 .. n, as n resets upwards create them
TreesUpTo(n) ==
    [level \in 0 .. n |-> createQuadTreeForLevel(<<>>, level)[level]]

\* the engine after count resets upwards, at a zoom level the animation has
\* reached; above level count 0 every zoom level and every target is above
\* zoomResetLowerThreshold
InitEZ ==
    /\ zoomLevelCount \in 0 .. MaxEZCount
    /\ zoomLevel \in EZZoomLevels
    /\ zoomLevelCount > 0 => Gt(zoomLevel, Num(zoomResetLowerThreshold))
    /\ objs = <<>>
    /\ levelQuadTrees = TreesUpTo(zoomLevelCount)
    /\ currentLevel = zoomLevelCount
    /\ viewportX = Num(0)
    /\ viewportY = Num(0)
    /\ lastResetTime = resetCooldown * zoomLevelCount
    /\ targetZoom = zoomLevel
    /\ targetX = Num(0)
    /\ targetY = Num(0)
    /\ isAnimating = FALSE
    /\ now = resetCooldown * zoomLevelCount
    /\ transfers = zoomLevelCount
    /\ live = {}
    /\ last = NoOp
    /\ before = NoOp

NextEZ == GetEffectiveZoom

SpecEZ == InitEZ /\ [][NextEZ]_vars

-----------------------------------------------------------------------------
(* The engine panned and zoomed *)

\* how far the viewport is panned from the origin, in world units
MaxPanned == 100

\* InfiniteZoomEngine.pan(deltaX, deltaY)
Pan(deltaX, deltaY) ==
    /\ \E x \in {Add(viewportX, Div(deltaX, zoomLevel))},
          y \in {Add(viewportY, Div(deltaY, zoomLevel))} :
          /\ Le(AbsR(x), Num(MaxPanned))
          /\ Le(AbsR(y), Num(MaxPanned))
          /\ viewportX' = x
          /\ viewportY' = y
          /\ targetX' = x
          /\ targetY' = y
    /\ last' = [NoOp EXCEPT !.op = "pan", !.pre = Snapshot]
    /\ before' = Earlier
    /\ UNCHANGED <<objs, levelQuadTrees, currentLevel, transfers, live, now>>
    /\ UNCHANGED <<zoomLevel, zoomLevelCount, lastResetTime, targetZoom, isAnimating>>

\* the arrow keys pan by 50 pixels
PanSteps == { <<Num(50), Num(0)>>, <<Num(0), Num(-50)>> }

\* the zoom factors requested of the panned engine: past either threshold
PanZoomRequests == { Frac(1, 2000), Num(zoomResetThreshold) }

\* the engine panned with the arrow keys before its first reset, and zoomed
NextPan ==
    \/ \E shape \in SceneShapes : Len(objs) < MaxSceneObjs /\ AddObject(shape)
    \/ \E d \in PanSteps : transfers = 0 /\ Pan(d[1], d[2])
    \/ \E z \in PanZoomRequests, c \in FocusPoints : ZoomTo(z, c[1], c[2])
    \/ AdvanceTime(resetCooldown)

SpecPan == Init /\ [][NextPan]_vars

-----------------------------------------------------------------------------
(* The engine with its zoom animation *)

\* InfiniteZoomEngine.updateAnimation, frame after frame until it finds the
\* animation complete: every frame moves the zoom level and the viewport
\* 15% of the way to their targets, and the frame that finds them within 0.01
\* and 0.1 of the targets sets them to the targets and ends the animation
FinishAnimation ==
    /\ isAnimating
    /\ zoomLevel' = targetZoom
    /\ viewportX' = targetX
    /\ viewportY' = targetY
    /\ isAnimating' = FALSE
    /\ last' = [NoOp EXCEPT !.op = "updateAnimation", !.pre = Snapshot]
    /\ before' = last
    /\ UNCHANGED <<objs, levelQuadTrees, currentLevel, transfers, live, now>>
    /\ UNCHANGED <<zoomLevelCount, lastResetTime, targetZoom, targetX, targetY>>

\* this.animationSpeed
animationSpeed == Frac(15, 100)

\* the number x as the arithmetic of the program keeps it: every result is
\* rounded, here to the nearest thousandth
Rounded(x) ==
    LET whole == x[1] \div x[2]
        rest == x[1] % x[2]
        thousandths == (rest * 2000 + x[2]) \div (2 * x[2])
    IN  Add(Num(whole), Frac(thousandths, 1000))

\* an updateAnimation that never finds the animation complete
neverComplete(zoomDiff, xDiff, yDiff) == FALSE

\* updateAnimation: the animation is complete
animationComplete(zoomDiff, xDiff, yDiff) ==
    /\ Lt(AbsR(zoomDiff), Frac(1, 100))
    /\ Lt(AbsR(xDiff), Frac(1, 10))
    /\ Lt(AbsR(yDiff), Frac(1, 10))

\* InfiniteZoomEngine.updateAnimation, called by render() for one frame
UpdateAnimation ==
    /\ isAnimating
    /\ \E zoomDiff \in { Sub(targetZoom, zoomLevel) },
          xDiff \in { Sub(targetX, viewportX) },
          yDiff \in { Sub(targetY, viewportY) } :
          IF animationComplete(zoomDiff, xDiff, yDiff)
          THEN /\ zoomLevel' = targetZoom
               /\ viewportX' = targetX
               /\ viewportY' = targetY
               /\ isAnimating' = FALSE
          ELSE \E zoomStep \in { Mul(zoomDiff, animationSpeed) },
                  xStep \in { Mul(xDiff, animationSpeed) },
                  yStep \in { Mul(yDiff, animationSpeed) } :
               \E z \in { Add(zoomLevel, zoomStep) },
                  x \in { Add(viewportX, xStep) },
                  y \in { Add(viewportY, yStep) } :
                  /\ zoomLevel' \in { Rounded(z) }
                  /\ viewportX' \in { Rounded(x) }
                  /\ viewportY' \in { Rounded(y) }
                  /\ isAnimating' = TRUE
    /\ last' = [NoOp EXCEPT !.op = "updateAnimation", !.pre = Snapshot]
    /\ before' = last
    /\ UNCHANGED <<objs, levelQuadTrees, currentLevel, transfers, live, now>>
    /\ UNCHANGED <<zoomLevelCount, lastResetTime, targetZoom, targetX, targetY>>

\* the zoom factor requested with the keys, short of either threshold
TickZoomRequests == { Num(3) }

\* the engine frame by frame, panned at first: a zoom request short of the
\* thresholds or a resetView comes while no animation runs and before any
\* reset, and time passes while no animation runs; a request for a reset
\* comes while an animation runs
NextTick ==
    \/ \E z \in TickZoomRequests, c \in FocusPoints :
          transfers = 0 /\ ~ isAnimating /\ ZoomTo(z, c[1], c[2])
    \/ \E c \in FocusPoints :
          isAnimating /\ ~ tooSoon /\ ZoomTo(Num(zoomResetThreshold), c[1], c[2])
    \/ \E d \in PanSteps : last.op = "none" /\ Pan(d[1], d[2])
    \/ transfers = 0 /\ ~ isAnimating /\ ResetView
    \/ ~ isAnimating /\ AdvanceTime(resetCooldown)
    \/ UpdateAnimation

\* render() runs frame after frame
SpecTick == Init /\ [][NextTick]_vars /\ WF_vars(UpdateAnimation)

\* the screen points zoomed about: one away from the middle of the canvas, and
\* the middle of the canvas
AnimFocusPoints == { <<Num(100), Num(50)>>, <<Num(400), Num(300)>> }

\* the zoom factors requested while animating: below the range, inside it
\* and at the upper threshold
AnimZoomRequests == { Frac(1, 2000), Num(300), Num(zoomResetThreshold) }

NextAnim ==
    \/ \E z \in AnimZoomRequests, c \in AnimFocusPoints : ZoomTo(z, c[1], c[2])
    \/ \E z \in AnimZoomRequests, c \in AnimFocusPoints : SetZoom(z, c[1], c[2])
    \/ AdvanceTime(resetCooldown)
    \/ FinishAnimation

SpecAnim == Init /\ [][NextAnim]_vars

-----------------------------------------------------------------------------
(* Properties of one tree: insert, query, clear, rebuild *)

\* the current level's tree
CurTree == levelQuadTrees[currentLevel]

\* the tree the last operation started with
PreTree == last.pre.trees[last.pre.currentLevel]

\* the ranges queried
Ranges ==
    { Rectangle(Num(-2), Num(-2), Num(4), Num(4)),       \* about the origin
      Rectangle(Num(-16), Num(-16), Num(32), Num(32)),   \* the whole universe
      Rectangle(Num(-16), Num(-16), Num(8), Num(8)),     \* NW of NW
      Rectangle(Num(4), Num(4), Num(1), Num(1)),         \* a small one in SE
      Rectangle(Num(12), Num(0), Num(8), Num(8)),        \* across the right edge
      Rectangle(Num(17), Num(0), Num(6), Num(6)),        \* right of the universe
      Rectangle(Num(-40), Num(-40), Num(80), Num(80)) }  \* around the universe

\* how often x occurs in the sequence s
Count(s, x) == Cardinality({i \in DOMAIN s : s[i] = x})

\* C1: query(R) holds an object exactly if the object was inserted, was not
\* cleared, and its bounds intersect R.
C1_QueryIsExact ==
    \A R \in Ranges : \A o \in DOMAIN objs :
        (o \in Range(query(CurTree, R, objs)))
            <=> (o \in live /\ intersects(R, getBounds(objs[o])))

\* C2: after insert(O), query(O.getBounds()) holds O. An insert that returned
\* false stored nothing and is not held against the statement.
C2_InsertThenQuery ==
    (last.op = "insert" /\ last.ret)
        => last.obj \in Range(query(CurTree, getBounds(objs[last.obj]), objs))

\* C4: insert returns false only when the bounds miss the root boundary, and
\* then leaves the tree as it was; otherwise it returns true and the object
\* is reachable from the root.
C4_InsertResult ==
    last.op = "insert" =>
        LET hit == intersects(PreTree.boundary, getBounds(objs[last.obj]))
        IN  /\ (~ last.ret) => (~ hit /\ CurTree = PreTree)
            /\ hit => (last.ret /\ last.obj \in Range(getAllObjects(CurTree)))

\* C5: an accepted insert into an undivided root below the depth cap that
\* holds maxObjects objects subdivides the root into four children, and a
\* query over a range that intersects all maxObjects + 1 objects returns
\* every one of them.
C5_SubdivideKeepsAll ==
    (/\ last.op = "insert"
     /\ last.ret
     /\ ~ PreTree.divided
     /\ PreTree.level < maxLevels
     /\ Len(PreTree.objects) = maxObjects)
        => /\ CurTree.divided
           /\ Len(CurTree.nodes) = 4
           /\ \A R \in Ranges :
                LET all == Range(PreTree.objects) \cup {last.obj}
                IN  (\A o \in all : intersects(R, getBounds(objs[o])))
                        => all \subseteq Range(query(CurTree, R, objs))

-----------------------------------------------------------------------------
(* Properties of the manager: the trees of all levels, and transfers *)

\* the objects of a level's tree in a map of trees; none if the level has no tree
ObjectsOfLevel(trees, level) ==
    IF level \in DOMAIN trees THEN getAllObjects(trees[level]) ELSE <<>>

\* in how many places of all trees the object is stored
Occurrences(o) ==
    Cardinality({ p \in UNION { {<<l, i>> : i \in DOMAIN getAllObjects(levelQuadTrees[l])}
                                : l \in DOMAIN levelQuadTrees }
                  : getAllObjects(levelQuadTrees[p[1]])[p[2]] = o })

\* C3: every object that was inserted and not cleared is stored in exactly
\* one node, and no other object is stored anywhere.
C3_ExactlyOneNode ==
    \A o \in DOMAIN objs : Occurrences(o) = IF o \in live THEN 1 ELSE 0

\* the last two operations were transfer(e0, e1, f, c) and transfer(e1, e0, 1/f, c)
RoundTrip ==
    /\ last.op = "transfer"
    /\ before.op = "transfer"
    /\ before.fromLevel # before.toLevel
    /\ last.fromLevel = before.toLevel
    /\ last.toLevel = before.fromLevel
    /\ last.scaleFactor = Div(Num(1), before.scaleFactor)
    /\ last.centerX = before.centerX
    /\ last.centerY = before.centerY

\* C6: a transfer followed by the inverse transfer restores every field of
\* every object it moved, and leaves those objects in the tree they came from.
C6_RoundTripRestores ==
    RoundTrip =>
        \A o \in Range(ObjectsOfLevel(before.pre.trees, before.fromLevel)) :
            /\ objs[o] = before.pre.objs[o]
            /\ o \in Range(ObjectsOfLevel(levelQuadTrees, before.fromLevel))

\* C7: a transfer between two levels empties the source tree, and the target
\* tree holds what it held plus every object of the source tree, each once.
C7_TransferKeepsObjects ==
    (last.op = "transfer" /\ last.fromLevel # last.toLevel) =>
        /\ ObjectsOfLevel(levelQuadTrees, last.fromLevel) = <<>>
        /\ \A o \in DOMAIN objs :
              Count(ObjectsOfLevel(levelQuadTrees, last.toLevel), o)
                  = Count(ObjectsOfLevel(last.pre.trees, last.toLevel), o)
                    + Count(ObjectsOfLevel(last.pre.trees, last.fromLevel), o)

-----------------------------------------------------------------------------
(* Properties of the engine: zoom requests and resets *)

\* the last operation was a zoom request
ZoomRequested == last.op \in {"zoomTo", "setZoom"}

\* the requested zoom factor, clamped to the zoom range
Clamped == Max2(minZoom, Min2(Num(maxZoom), last.requested))

\* a reset asked for by the last request was neither throttled nor refused
Accepted ==
    /\ last.pre.now - last.pre.lastResetTime >= resetCooldown
    /\ Abs(last.pre.zoomLevelCount) <= excessiveLevelCount

\* the objects are those before the last request, the ones of the level the
\* request started at scaled by f about the middle of the viewport
ScaledBy(f) ==
    /\ Len(objs) = Len(last.pre.objs)
    /\ \A o \in DOMAIN objs :
          objs[o] =
              IF o \in Range(ObjectsOfLevel(last.pre.trees, last.pre.zoomLevelCount))
              THEN scaleObjectRelativeToPoint(last.pre.objs[o], f,
                                              last.pre.viewportX, last.pre.viewportY)
              ELSE last.pre.objs[o]

\* the last request left the objects, the trees and the level count alone
NothingTransferred ==
    /\ transfers = last.pre.transfers
    /\ objs = last.pre.objs
    /\ levelQuadTrees = last.pre.trees
    /\ zoomLevelCount = last.pre.zoomLevelCount

C9_DownReset ==
    (ZoomRequested /\ Le(Clamped, Num(zoomResetLowerThreshold))) =>
        IF last.pre.zoomLevelCount > 0
        THEN IF Accepted
             THEN /\ transfers = last.pre.transfers + 1
                  /\ last.fromLevel = last.pre.zoomLevelCount
                  /\ last.toLevel = last.pre.zoomLevelCount - 1
                  /\ last.scaleFactor = Div(Num(zoomResetTarget), Num(zoomResetThreshold))
                  /\ ScaledBy(Div(Num(zoomResetTarget), Num(zoomResetThreshold)))
                  /\ ObjectsOfLevel(levelQuadTrees, last.pre.zoomLevelCount) = <<>>
                  /\ zoomLevelCount = last.pre.zoomLevelCount - 1
                  /\ zoomLevel = Num(zoomResetUpperTarget)
             ELSE /\ NothingTransferred
                  /\ zoomLevel = last.pre.zoomLevel
                  /\ targetZoom = last.pre.targetZoom
        ELSE /\ NothingTransferred
             /\ zoomLevelCount = 0

\* an accepted reset downwards moved an object
C9_Witness ==
    /\ ZoomRequested /\ Le(Clamped, Num(zoomResetLowerThreshold)) /\ Accepted
    /\ last.pre.zoomLevelCount > 0
    /\ ObjectsOfLevel(last.pre.trees, last.pre.zoomLevelCount) # <<>>
    /\ objs # last.pre.objs

\* the last request asked for no reset
NoResetRequested ==
    /\ ZoomRequested
    /\ Lt(Clamped, Num(zoomResetThreshold))
    /\ (Gt(Clamped, Num(zoomResetLowerThreshold)) \/ last.pre.zoomLevelCount = 0)

-----------------------------------------------------------------------------
(* Properties of the engine: level count, throttling, the safety guard *)

\* C11: the level count is never negative, and it changes only by an accepted
\* reset: by +1 upwards, by -1 downwards.
C11_EpochSteps ==
    /\ [](zoomLevelCount \in Nat)
    /\ [][zoomLevelCount' # zoomLevelCount =>
            /\ last'.op \in {"zoomTo", "setZoom"}
            /\ \/ zoomLevelCount' = zoomLevelCount + 1 /\ last'.outcome = "up"
               \/ zoomLevelCount' = zoomLevelCount - 1 /\ last'.outcome = "down"]_vars

\* the state is the one the last operation started in: level count, zoom
\* level, target, viewport, current level, every tree, every object and the
\* time of the last reset
StateAsBefore ==
    /\ zoomLevelCount = last.pre.zoomLevelCount
    /\ zoomLevel = last.pre.zoomLevel
    /\ targetZoom = last.pre.targetZoom
    /\ targetX = last.pre.targetX
    /\ targetY = last.pre.targetY
    /\ viewportX = last.pre.viewportX
    /\ viewportY = last.pre.viewportY
    /\ isAnimating = last.pre.isAnimating
    /\ currentLevel = last.pre.currentLevel
    /\ levelQuadTrees = last.pre.trees
    /\ objs = last.pre.objs
    /\ transfers = last.pre.transfers
    /\ lastResetTime = last.pre.lastResetTime

\* the last request came less than the cooldown after the last reset
InsideCooldown == last.pre.now - last.pre.lastResetTime < resetCooldown

\* the last request asked for a reset, upwards or downwards
ResetRequested == ZoomRequested /\ ~NoResetRequested

-----------------------------------------------------------------------------
(* Properties of the engine zoomed in again and again *)

\* C13: the level count never exceeds the bound of the safety guard.
C13_CountWithinBound == zoomLevelCount <= excessiveLevelCount

\* the last request asked for a reset that the safety guard refused
RefusedByGuard ==
    /\ ResetRequested
    /\ ~InsideCooldown
    /\ Abs(last.pre.zoomLevelCount) > excessiveLevelCount

\* C14: a reset refused by the safety guard leaves the whole state as it
\* was, the time of the last reset included.
C14_RefusedChangesNothing ==
    RefusedByGuard => StateAsBefore


-----------------------------------------------------------------------------
(* Properties of the engine: what a request tells its caller *)

\* the last request asked for a reset that was throttled or refused
Rejected == ResetRequested /\ last.outcome \in {"throttled", "refused"}

\* C15: a request rejected by the cooldown or by the safety guard returns a
\* result that tells the caller so: a value, not the undefined of a request
\* that was accepted.
C15_RejectionReturned ==
    Rejected => last.returned # "undefined"


-----------------------------------------------------------------------------
(* Properties of the engine: the first reset upwards and the way back *)

\* the last request asked for the factor zoomResetThreshold = 500000, at level
\* count 0 and zoom level 1, with the cooldown passed
FirstRequestForThreshold ==
    /\ ZoomRequested
    /\ last.requested = Num(zoomResetThreshold)
    /\ last.pre.zoomLevelCount = 0
    /\ last.pre.zoomLevel = Num(1)
    /\ ~InsideCooldown

\* C16: from level count 0 and zoom level 1, with the cooldown passed, one
\* request for the factor 500000 performs exactly one reset upwards and leaves
\* the level count at 1, the zoom level at 2 and the effective zoom at 500000.
C16_FirstUpReset ==
    FirstRequestForThreshold =>
        /\ last.outcome = "up"
        /\ transfers = last.pre.transfers + 1
        /\ Len(last.notified) = 1
        /\ zoomLevelCount = 1
        /\ zoomLevel = Num(2)
        /\ getEffectiveZoom = Sci(Num(500000), 0)

\* the first reset upwards happened, with an object in the scene
C16_Witness ==
    /\ FirstRequestForThreshold
    /\ last.pre.transfers = 0
    /\ live # {}
    /\ zoomLevelCount = 1


\* the last request performed a reset upwards
UpResetDone == ZoomRequested /\ last.outcome = "up"

\* the world point under the screen point the last request was given
FocusWorld ==
    screenToWorld(last.focusX, last.focusY,
                  last.pre.viewportX, last.pre.viewportY, last.pre.zoomLevel)

\* the objects are those before the last request, the ones of the level the
\* request started at scaled by f about the point (cx, cy)
ScaledByAbout(f, cx, cy) ==
    /\ Len(objs) = Len(last.pre.objs)
    /\ \A o \in DOMAIN objs :
          objs[o] =
              IF o \in Range(ObjectsOfLevel(last.pre.trees, last.pre.zoomLevelCount))
              THEN scaleObjectRelativeToPoint(last.pre.objs[o], f, cx, cy)
              ELSE last.pre.objs[o]

\* C17: a reset upwards rescales every object of the level by
\* zoomResetThreshold / zoomResetTarget = 250000, about the point the request
\* was given.
C17_ScaledByRatioAboutFocus ==
    UpResetDone => ScaledByAbout(levelRatio, FocusWorld.x, FocusWorld.y)


\* the last request asked for the factor 1, right after a reset upwards from
\* level count 0
RequestForOneAfterFirstUp ==
    /\ ZoomRequested
    /\ last.requested = Num(1)
    /\ before.outcome = "up"
    /\ before.pre.zoomLevelCount = 0

\* C18: after a reset upwards from level count 0, the next request, for the
\* factor 1, performs exactly one reset downwards; the level count is 0 again
\* and every object is as it was before the reset upwards.
C18_UpThenDownIsIdentity ==
    RequestForOneAfterFirstUp =>
        /\ last.outcome = "down"
        /\ transfers = last.pre.transfers + 1
        /\ zoomLevelCount = 0
        /\ objs = before.pre.objs


-----------------------------------------------------------------------------
(* Properties of the effective zoom *)

\* the number v = mant * 250000^exp, 1 <= mant < 250000, is greater than
\* Number.MAX_SAFE_INTEGER
ExceedsMaxSafe(v) ==
    \/ v.exp > 2
    \/ v.exp = 2 /\ AboveDigits(v.mant, MaxSafeDigits)

\* min(zoom level * (zoomResetThreshold / zoomResetTarget)^(level count),
\* Number.MAX_SAFE_INTEGER), for the state the last operation started in
SaturatedProduct ==
    LET product == Sci(last.pre.zoomLevel, last.pre.zoomLevelCount)
    IN  IF ExceedsMaxSafe(product) THEN MAX_SAFE_INTEGER ELSE product

\* C19: getEffectiveZoom returns the zoom level times 250000^(level count),
\* or Number.MAX_SAFE_INTEGER if that is smaller: never a number above
\* Number.MAX_SAFE_INTEGER. It changes no state.
C19_SaturatingProduct ==
    last.op = "getEffectiveZoom" =>
        /\ last.returned = SaturatedProduct
        /\ last.returned = MAX_SAFE_INTEGER \/ ~ExceedsMaxSafe(last.returned)
        /\ StateAsBefore
        /\ live = last.pre.live

\* getEffectiveZoom saturated at a level count above maxLevelCount
C19_WitnessSaturated ==
    /\ last.op = "getEffectiveZoom"
    /\ zoomLevelCount > maxLevelCount
    /\ last.returned = MAX_SAFE_INTEGER


\* the size of an object: the width of its bounds
SizeOf(o) == getObjectBounds(o).width

\* the number x * e, for an effective zoom e
TimesEffectiveZoom(x, e) == Sci(Mul(x, e.mant), e.exp)

\* C20: the effective zoom is the magnification the objects have gone
\* through: an object's size times the zoom level equals its original size
\* times the effective zoom. Stated after a request before which no reset had
\* touched the objects, so that their sizes before it are the original ones.
C20_TrueMagnification ==
    (ZoomRequested /\ last.pre.transfers = 0) =>
        \A o \in DOMAIN last.pre.objs :
            Sci(Mul(SizeOf(objs[o]), zoomLevel), 0)
                = TimesEffectiveZoom(SizeOf(last.pre.objs[o]), getEffectiveZoom)

-----------------------------------------------------------------------------
(* Properties of the engine: what a reset shows on the screen *)

\* the last request performed a reset, upwards or downwards
ResetDone == ZoomRequested /\ last.outcome \in {"up", "down"}

\* where the bounds of the object o are drawn, and how large, for a viewport
\* (vx, vy) and a zoom level z
OnScreen(o, vx, vy, z) ==
    [pos |-> worldToScreen(getObjectBounds(o).x, getObjectBounds(o).y, vx, vy, z),
     width |-> Mul(getObjectBounds(o).width, z),
     height |-> Mul(getObjectBounds(o).height, z)]

\* C21: an accepted reset, upwards or downwards, leaves every object where it
\* was on the screen, and as large.
C21_SeamlessReset ==
    ResetDone =>
        \A o \in DOMAIN last.pre.objs :
            OnScreen(objs[o], viewportX, viewportY, zoomLevel)
                = OnScreen(last.pre.objs[o], last.pre.viewportX, last.pre.viewportY,
                           last.pre.zoomLevel)

-----------------------------------------------------------------------------
(* Properties of the engine: the notification of a reset *)

\* C22: an accepted reset transfers the objects, updates the engine, switches
\* the manager to the new level and then notifies the observer, once, with
\* the new level count, the effective zoom of the updated engine and the
\* direction; the tree of the old level is empty and the manager's current
\* level is the notified one. A request that performs no reset notifies
\* nobody.
C22_NotifiedAfterUpdate ==
    ZoomRequested =>
        IF last.outcome \in {"up", "down"}
        THEN /\ transfers = last.pre.transfers + 1
             /\ last.notified = << <<zoomLevelCount, getEffectiveZoom, last.outcome>> >>
             /\ zoomLevelCount # last.pre.zoomLevelCount
             /\ ObjectsOfLevel(levelQuadTrees, last.pre.zoomLevelCount) = <<>>
             /\ currentLevel = last.notified[1][1]
        ELSE last.notified = <<>>

\* a reset downwards notified the observer, with an object in the scene and
\* an effective zoom other than the one before the reset
C22_Witness ==
    /\ ZoomRequested /\ last.outcome = "down"
    /\ Len(last.notified) = 1
    /\ last.notified[1][2] # effectiveZoomOf(last.pre.zoomLevel, last.pre.zoomLevelCount)
    /\ ObjectsOfLevel(last.pre.trees, last.pre.zoomLevelCount) # <<>>

-----------------------------------------------------------------------------
(* Properties of the engine: zooming about a point *)

\* the zoom animation has just completed, and it was started by the request
\* before it, which asked for no reset and was applied
AnimatedRequestDone ==
    /\ last.op = "updateAnimation"
    /\ before.op \in {"zoomTo", "setZoom"}
    /\ before.outcome = "applied"

\* C23: a zoom request that asks for no reset keeps the point it zooms about
\* fixed: once the animation has completed, the world point that was under
\* the screen point of the request is under it still.
C23_FocusStaysFixed ==
    AnimatedRequestDone =>
        screenToWorld(before.focusX, before.focusY, viewportX, viewportY, zoomLevel)
            = screenToWorld(before.focusX, before.focusY, before.pre.viewportX,
                            before.pre.viewportY, before.pre.zoomLevel)

-----------------------------------------------------------------------------
(* Properties of the manager: kinds without a scaling rule *)

\* the objects the last transfer took from its source level
Transferred == Range(ObjectsOfLevel(last.pre.trees, last.fromLevel))

\* the last operation was a transfer with a scale factor other than 1 that
\* took a group and an object of another kind from the source level
GroupTransferred ==
    /\ last.op = "transfer"
    /\ last.scaleFactor # Num(1)
    /\ \E g \in Transferred : objs[g].kind = "VectorGroup"
    /\ \E o \in Transferred : objs[o].kind # "VectorGroup"

\* C24: a transfer that meets an object of a kind without a scaling rule
\* fails with an error; it never completes with that object as it was while
\* the other objects were scaled.
C24_UnsupportedKindFailsLoudly ==
    GroupTransferred =>
        ~ /\ last.outcome # "error"
          /\ \E g \in Transferred : /\ objs[g].kind = "VectorGroup"
                                    /\ objs[g] = last.pre.objs[g]
          /\ \E o \in Transferred : /\ objs[o].kind # "VectorGroup"
                                    /\ objs[o] # last.pre.objs[o]

-----------------------------------------------------------------------------
(* Properties of one tree: invalid geometry *)

\* the bounds have a negative width or height
InvalidBounds(b) == Lt(b.width, Num(0)) \/ Lt(b.height, Num(0))

\* C25: an object whose bounds have a negative width or height is rejected by
\* insert and by transfer: no node of any tree stores one.
C25_InvalidNeverStored ==
    \A level \in DOMAIN levelQuadTrees :
        \A o \in Range(ObjectsOfLevel(levelQuadTrees, level)) :
            ~InvalidBounds(getBounds(objs[o]))

-----------------------------------------------------------------------------
(* Properties of one tree: queryLOD *)

\* the last operation was a queryLOD
QueriedLOD == last.op = "queryLOD"

\* the objects of the tree without shouldRenderAtZoom whose bounds intersect
\* the range of the last queryLOD
Unjudged ==
    { o \in Range(getAllObjects(CurTree)) :
          /\ ~ hasShouldRenderAtZoom(objs[o])
          /\ intersects(last.range, getBounds(objs[o])) }

\* C26: queryLOD completes normally when it meets an object without
\* shouldRenderAtZoom, and its result holds the object.
C26_PredicateOptional ==
    (QueriedLOD /\ intersects(CurTree.boundary, last.range)) =>
        /\ last.outcome = "returned"
        /\ \A o \in Unjudged : o \in Range(last.returned)

\* the levels of the nodes of the tree t that store the object o
RECURSIVE LevelsOf(_, _)
LevelsOf(t, o) ==
    (IF o \in Range(t.objects) THEN {t.level} ELSE {})
        \cup (IF t.divided
              THEN UNION {LevelsOf(t.nodes[i], o) : i \in 1 .. 4}
              ELSE {})

\* D = min(maxLevels, floor(log2(z)) + K), K = 2 above zoom level 10000 and
\* 3 otherwise, for the zoom level z of the last queryLOD
DepthAtZoom ==
    LET K == IF Gt(last.requested, Num(10000)) THEN 2 ELSE 3
        d == floorLog2(last.requested) + K
    IN  IF maxLevels < d THEN maxLevels ELSE d

\* the object passes its own shouldRenderAtZoom at the zoom level of the last
\* queryLOD
Qualifies(o) ==
    shouldRenderAtZoom(objs[o], last.requested, calculateLODThreshold(last.requested))

\* what query returns for the range of the last queryLOD, restricted to the
\* objects that qualify and are stored at a level of at most depth
QueryRestrictedTo(depth) ==
    LET Kept(o) == Qualifies(o) /\ \E l \in LevelsOf(CurTree, o) : l <= depth
    IN  SelectSeq(query(CurTree, last.range, objs), Kept)

-----------------------------------------------------------------------------
(* Properties of the manager: the map from level to tree *)

\* the step is a call that asks for the tree of a level
AsksForLevel ==
    /\ last'.op \in {"createQuadTreeForLevel", "getQuadTreeForLevel"}
    /\ last'.pre = Snapshot
    /\ currentLevel' = currentLevel

\* the step is a setCurrentLevel, the one call that leaves no record
SwitchesLevel == currentLevel' # currentLevel /\ last' = last

\* a tree as the constructor of the manager's trees leaves it
FreshTree ==
    QuadTree(Rectangle(baseBounds.x, baseBounds.y, baseBounds.width,
                       baseBounds.height), 0)

\* C28: the map from level to tree only grows; a level asked for the first
\* time gets an empty tree over the base universe; asking again for a level
\* that has a tree returns that tree and leaves the map as it is; and every
\* operation (insert, clear, level switch, transfer) keeps every entry
C28_MapOnlyGrows ==
    [][ /\ DOMAIN levelQuadTrees \subseteq DOMAIN levelQuadTrees'
        /\ AsksForLevel =>
              IF last'.toLevel \in DOMAIN levelQuadTrees
              THEN /\ last'.returned = levelQuadTrees[last'.toLevel]
                   /\ levelQuadTrees' = levelQuadTrees
              ELSE /\ last'.returned = FreshTree
                   /\ levelQuadTrees'[last'.toLevel] = FreshTree
                   /\ \A l \in DOMAIN levelQuadTrees :
                         levelQuadTrees'[l] = levelQuadTrees[l]
        /\ SwitchesLevel =>
              /\ \A l \in DOMAIN levelQuadTrees :
                    levelQuadTrees'[l] = levelQuadTrees[l]
              /\ \A l \in DOMAIN levelQuadTrees' \ DOMAIN levelQuadTrees :
                    l = currentLevel' /\ levelQuadTrees'[l] = FreshTree
      ]_vars

\* a tree that holds an object has been asked for again after a transfer and
\* a clear
C28_Witness ==
    /\ last.op \in {"createQuadTreeForLevel", "getQuadTreeForLevel"}
    /\ last.toLevel \in DOMAIN last.pre.trees
    /\ getAllObjects(last.returned) # <<>>
    /\ last.pre.transfers > 0
    /\ DOMAIN levelQuadTrees = Levels

-----------------------------------------------------------------------------
(* Properties of the engine zoomed in again and again: no stuck state *)

\* C29: zooming never gets stuck: a request that asks for a reset and comes
\* after the cooldown has passed is accepted, upwards when the clamped factor
\* has reached the upper threshold, downwards when the level count is above
\* zero and the clamped factor is at or under the lower threshold.
C29_ResetAfterCooldownAccepted ==
    (ResetRequested /\ ~InsideCooldown) =>
        IF Ge(Clamped, Num(zoomResetThreshold))
        THEN last.outcome = "up" /\ zoomLevelCount = last.pre.zoomLevelCount + 1
        ELSE last.outcome = "down" /\ zoomLevelCount = last.pre.zoomLevelCount - 1

-----------------------------------------------------------------------------
(* Properties of one tree: how many objects a node holds *)

\* no node of t that is not subdivided and lies above the depth cap holds
\* more than maxObjects objects
RECURSIVE WithinCapacity(_)
WithinCapacity(t) ==
    /\ (~ t.divided /\ t.level < maxLevels) => Len(t.objects) <= maxObjects
    /\ \A i \in DOMAIN t.nodes : WithinCapacity(t.nodes[i])

\* some node of t holds more than maxObjects objects
RECURSIVE SomeNodeHoldsMore(_)
SomeNodeHoldsMore(t) ==
    \/ Len(t.objects) > maxObjects
    \/ \E i \in DOMAIN t.nodes : SomeNodeHoldsMore(t.nodes[i])

\* C30: in every tree of the manager, a node that is not subdivided and whose
\* level is below maxLevels holds at most maxObjects objects; only subdivided
\* nodes and nodes at the depth cap hold more.
C30_NodeCapacity ==
    \A l \in DOMAIN levelQuadTrees : WithinCapacity(levelQuadTrees[l])

\* a subdivided node holds more than maxObjects objects, after inserts and a
\* rebuild
C30_Witness ==
    /\ last.op \in {"insert", "rebuild"}
    /\ SomeNodeHoldsMore(levelQuadTrees[currentLevel])
    /\ levelQuadTrees[currentLevel].divided

-----------------------------------------------------------------------------
(* Properties of one tree: the shape of the tree *)

\* child is the quadrant of parent that starts at (x, y)
IsQuadrant(child, parent, x, y) ==
    /\ child.boundary.x = x
    /\ child.boundary.y = y
    /\ Add(child.boundary.width, child.boundary.width) = parent.boundary.width
    /\ Add(child.boundary.height, child.boundary.height) = parent.boundary.height
    /\ child.level = parent.level + 1

\* no node of t lies deeper than maxLevels, a node at maxLevels has no
\* children, and the children of a node are its quadrants NW, NE, SW, SE
RECURSIVE WellFormed(_)
WellFormed(t) ==
    LET midX == Add(t.boundary.x, Div(t.boundary.width, Two))
        midY == Add(t.boundary.y, Div(t.boundary.height, Two))
    IN  /\ t.level <= maxLevels
        /\ t.level = maxLevels => ~ t.divided
        /\ ~ t.divided => t.nodes = <<>>
        /\ t.divided =>
              /\ Len(t.nodes) = 4
              /\ IsQuadrant(t.nodes[1], t, t.boundary.x, t.boundary.y)
              /\ IsQuadrant(t.nodes[2], t, midX, t.boundary.y)
              /\ IsQuadrant(t.nodes[3], t, t.boundary.x, midY)
              /\ IsQuadrant(t.nodes[4], t, midX, midY)
        /\ \A i \in DOMAIN t.nodes : WellFormed(t.nodes[i])

\* C31: in every tree no node has a level above maxLevels, a node at level
\* maxLevels is never subdivided, and the children of a node are its four
\* equal quadrants in the order NW, NE, SW, SE, one level below it.
C31_TreeShape ==
    \A l \in DOMAIN levelQuadTrees : WellFormed(levelQuadTrees[l])

\* some node of t at level maxLevels holds more than maxObjects objects
RECURSIVE DeepestHoldsMore(_)
DeepestHoldsMore(t) ==
    \/ t.level = maxLevels /\ Len(t.objects) > maxObjects
    \/ \E i \in DOMAIN t.nodes : DeepestHoldsMore(t.nodes[i])

\* a node at the depth cap was handed one object more than maxObjects and
\* kept it
C31_Witness ==
    /\ last.op = "insert"
    /\ last.ret
    /\ DeepestHoldsMore(levelQuadTrees[currentLevel])

-----------------------------------------------------------------------------
(* Properties of one tree: where an object is stored *)

\* the rectangle b lies wholly inside the rectangle r
LiesInside(b, r) ==
    /\ Ge(b.x, r.x)
    /\ Ge(b.y, r.y)
    /\ Le(Add(b.x, b.width), Add(r.x, r.width))
    /\ Le(Add(b.y, b.height), Add(r.y, r.height))

\* every object kept at a subdivided node of t straddles a subdivision line:
\* no child of the node contains its bounds
RECURSIVE OnlyStraddlersKept(_)
OnlyStraddlersKept(t) ==
    /\ t.divided =>
          \A k \in DOMAIN t.objects : \A i \in DOMAIN t.nodes :
              ~ LiesInside(getBounds(objs[t.objects[k]]), t.nodes[i].boundary)
    /\ \A i \in DOMAIN t.nodes : OnlyStraddlersKept(t.nodes[i])

\* C32: after any sequence of inserts every object is stored at the deepest
\* node that contains its bounds: the objects kept at a subdivided node are
\* the ones that no single child quadrant contains.
C32_DeepestContainingNode ==
    \A l \in DOMAIN levelQuadTrees : OnlyStraddlersKept(levelQuadTrees[l])

-----------------------------------------------------------------------------
(* Properties of one tree: rebuild *)

\* the last operation rebuilt the current level's tree
Rebuilt == last.op = "rebuild"

\* the first n elements of the sequence s, or all of s when it is shorter
FirstOf(s, n) == SubSeq(s, 1, IF Len(s) < n THEN Len(s) ELSE n)

\* C33: rebuild keeps the stored objects, also when their geometry was
\* changed in place since they were inserted: the objects reachable from the
\* root after the rebuild are those reachable before it, the boundary is the
\* one before, and the objects are reinserted in pre-order, so that the root
\* holds the first of them.
C33_RebuildKeepsObjects ==
    Rebuilt =>
        /\ Range(getAllObjects(CurTree)) = Range(getAllObjects(PreTree))
        /\ Len(getAllObjects(CurTree)) = Len(getAllObjects(PreTree))
        /\ CurTree.boundary = PreTree.boundary
        /\ CurTree.level = PreTree.level
        /\ FirstOf(CurTree.objects, maxObjects) = FirstOf(getAllObjects(PreTree), maxObjects)

-----------------------------------------------------------------------------
(* Properties of the manager: the universe of the target tree *)

\* the union of the universe u and the bounds b, padded on every side by a
\* tenth of its larger dimension
PaddedUnion(u, b) ==
    LET left == Min2(u.x, b.x)
        top == Min2(u.y, b.y)
        right == Max2(Add(u.x, u.width), Add(b.x, b.width))
        bottom == Max2(Add(u.y, u.height), Add(b.y, b.height))
        pad == Div(Max2(Sub(right, left), Sub(bottom, top)), Num(10))
    IN  Rectangle(Sub(left, pad), Sub(top, pad),
                  Add(Sub(right, left), Add(pad, pad)),
                  Add(Sub(bottom, top), Add(pad, pad)))

\* the universe u after the objects of the list, one after the other, had
\* their bounds tested against it
RECURSIVE UniverseAfter(_, _)
UniverseAfter(u, list) ==
    IF list = <<>> THEN u
    ELSE LET b == getObjectBounds(objs[Head(list)])
         IN  UniverseAfter(IF LiesInside(b, u) THEN u ELSE PaddedUnion(u, b),
                           Tail(list))

\* the target tree of the last transfer, before the transfer
TargetBefore == getQuadTreeForLevel(last.pre.trees, last.toLevel)[last.toLevel]

-----------------------------------------------------------------------------
(* Properties of the engine: what a reset does to the viewport *)

\* C35: an accepted reset scales the objects about the middle of the
\* viewport, whatever point the request was given, and leaves the viewport
\* where it was: viewportX, viewportY, targetX and targetY are the viewportX
\* and viewportY before the reset.
C35_ScaledAboutViewportCenter ==
    ResetDone =>
        /\ ScaledByAbout(last.scaleFactor, last.pre.viewportX, last.pre.viewportY)
        /\ viewportX = last.pre.viewportX
        /\ viewportY = last.pre.viewportY
        /\ targetX = last.pre.viewportX
        /\ targetY = last.pre.viewportY

\* a reset of a panned viewport, asked for about a point away from the middle
\* of the canvas, moved an object
C35_Witness ==
    /\ ResetDone
    /\ last.pre.viewportX # Num(0)
    /\ last.pre.viewportY # Num(0)
    /\ FocusWorld.x # last.pre.viewportX
    /\ objs # last.pre.objs

-----------------------------------------------------------------------------
(* Properties of the engine: resetView *)

\* the last operation was a resetView at a level count above zero
ViewResetAboveZero == last.op = "resetView" /\ last.pre.zoomLevelCount > 0

\* C36: resetView at level count N > 0 scales every object back by
\* (zoomResetTarget / zoomResetThreshold)^N and returns the engine to level
\* count 0 with target zoom 1 and target viewport (0, 0).
C36_ResetViewScalesBack ==
    ViewResetAboveZero =>
        /\ zoomLevelCount = 0
        /\ targetZoom = Num(1)
        /\ targetX = Num(0)
        /\ targetY = Num(0)
        /\ \A o \in DOMAIN objs :
              Sci(SizeOf(objs[o]), 0)
                  = Sci(SizeOf(last.pre.objs[o]), 0 - last.pre.zoomLevelCount)

-----------------------------------------------------------------------------
(* Properties of the engine: the range of the zoom level *)

\* z is at least minZoom and below the upper reset threshold
WithinZoomRange(z) == Ge(z, minZoom) /\ Lt(z, Num(zoomResetThreshold))

-----------------------------------------------------------------------------
(* Properties of the engine and the manager: the level they are at *)

\* C38: the level count of the engine is always the current level of the
\* manager.
C38_LevelsAgree == zoomLevelCount = currentLevel

-----------------------------------------------------------------------------
(* Properties of the engine and the manager: where the live objects are *)

\* every live object is stored in the tree of the level
AllLiveAt(level) ==
    /\ level \in DOMAIN levelQuadTrees
    /\ live \subseteq Range(ObjectsOfLevel(levelQuadTrees, level))

\* C39: every object that was added and not cleared is stored in the tree of
\* the manager's current level, and the trees of all other levels are empty;
\* the level the next reset transfers from, the level count of the engine,
\* therefore holds every live object.
C39_LiveObjectsAtActiveLevel ==
    /\ AllLiveAt(currentLevel)
    /\ \A l \in DOMAIN levelQuadTrees \ {currentLevel} :
          ObjectsOfLevel(levelQuadTrees, l) = <<>>
    /\ live # {} => AllLiveAt(zoomLevelCount)

-----------------------------------------------------------------------------
(* Properties of the engine frame by frame: the animation ends *)

\* the animation has ended where it was to end
AnimationEnded ==
    /\ ~ isAnimating
    /\ zoomLevel = targetZoom
    /\ viewportX = targetX
    /\ viewportY = targetY

\* C40: the zoom animation terminates: once an animation runs, and also when
\* a reset comes while it runs, frame after frame leads to a state where no
\* animation runs, the zoom level is the target zoom and the viewport is the
\* target viewport.
C40_AnimationTerminates == isAnimating ~> AnimationEnded

\* the frame that ended the animation came after a frame that did not, and
\* the animation went from one zoom level to another
C40_Witness ==
    /\ AnimationEnded
    /\ last.op = "updateAnimation"
    /\ before.op = "updateAnimation"
    /\ last.pre.zoomLevel # zoomLevel

=============================================================================
